---- MODULE Spec2Model ----
(***************************************************************************)
(* OpenSchool: the record store (js/storage.js: baseline JSON files        *)
(* overlaid by localStorage) and the page modules that mutate it           *)
(* (assignments, attendance, announcements).                               *)
(*                                                                         *)
(* Conventions of the model                                                *)
(*  - a localStorage value is a text; texts are [kind, val] with kind      *)
(*    "absent" (getItem returns null), "empty" (the string ''),            *)
(*    "malformed" (a string JSON.parse throws on) or "json" (the           *)
(*    JSON.stringify image of the array val);                              *)
(*  - a nullable number (grade: null) is Null == -1; every stored number   *)
(*    is >= 0;                                                             *)
(*  - weights are counted in hundredths (0.25 is 25);                      *)
(*  - ids made by generateId are <<prefix, n>> with n a fresh counter      *)
(*    value; timestamps are left out of the records.                       *)
(***************************************************************************)
EXTENDS Integers, Sequences, FiniteSets, TLC

VARIABLES
    localStorage,       \* key (entity name) -> text
    baseline,           \* entity name -> [status, data]: what fetch of data/sample/<name>.json gives
    user,               \* the session user of the page
    assignmentsData,    \* assignments module: in-memory arrays
    submissionsData,
    attendanceData,     \* attendance module: in-memory array
    announcementsData,  \* announcements module: in-memory array
    modal,              \* the modal dialog (what it shows, whether it is visible)
    roster,             \* the rendered attendance roster (class, date, pressed toggles)
    toast,              \* the last toast shown
    nextId,             \* generateId: number of ids made so far
    last,               \* the last operation and its outcome
    saved,              \* history: per name, what the last saveData since a reset wrote
    gradebook,          \* gradebook module: the tables it holds after init
    importer,           \* scripts/csv-to-json.js: one run of the command
    browser             \* the other localStorage entries, sessionStorage, <html> attributes

vars == <<localStorage, baseline, user, assignmentsData, submissionsData,
          attendanceData, announcementsData, modal, roster, toast, nextId,
          last, saved, gradebook, importer, browser>>

-----------------------------------------------------------------------------
(* Bounds *)

MaxId == 3              \* ids generateId may hand out in one behaviour

-----------------------------------------------------------------------------
(* Values *)

Null == -1

Names == {"attendance", "submissions", "grades", "assignments", "announcements"}

Absent == [kind |-> "absent", val |-> <<>>]
EmptyText == [kind |-> "empty", val |-> <<>>]
Malformed == [kind |-> "malformed", val |-> <<>>]

\* Array.prototype helpers
Range(s) == {s[i] : i \in 1..Len(s)}

\* index of the first element of s that is one of the matching ones, 0 if none
findIndex(s, matching) ==
    IF \E i \in 1..Len(s) : s[i] \in matching
    THEN CHOOSE i \in 1..Len(s) :
            s[i] \in matching /\ \A j \in 1..(i - 1) : s[j] \notin matching
    ELSE 0

-----------------------------------------------------------------------------
(* js/storage.js *)

\* JSON.stringify(data) of an array of plain records
JSONstringify(data) == [kind |-> "json", val |-> data]

\* JSON.parse(text): throws unless the text is JSON
JSONparse(text) ==
    [throws |-> text.kind # "json",
     val |-> IF text.kind = "json" THEN text.val ELSE <<>>]

\* `if (cached)`: null and '' are falsy, every other string is truthy
Truthy(text) == text.kind \notin {"absent", "empty"}

getItem(store, key) == store[key]
setItem(store, key, text) == [store EXCEPT ![key] = text]
removeItem(store, key) == [store EXCEPT ![key] = Absent]

\* fetch(<name>.json) then response.json(): the value, [] on a non-OK
\* status, and a rejection when fetch fails or the body is not JSON
fetchBaseline(name) ==
    LET b == baseline[name]
    IN  CASE b.status = "ok" -> [rejected |-> FALSE, val |-> b.data]
          [] b.status = "http_error" -> [rejected |-> FALSE, val |-> <<>>]
          [] OTHER -> [rejected |-> TRUE, val |-> <<>>]

\* loadData with the overlay test `if (cached && parsed.length)`: an empty
\* saved array counts as no overlay
loadData_EmptyIsMiss(store, name) ==
    LET cached == getItem(store, name)
        parsed == JSONparse(cached)
    IN  IF Truthy(cached) /\ ~parsed.throws /\ Len(parsed.val) > 0
        THEN [rejected |-> FALSE, val |-> parsed.val, store |-> store]
        ELSE LET store2 == IF Truthy(cached) /\ parsed.throws
                           THEN removeItem(store, name) ELSE store
                 f == fetchBaseline(name)
             IN  [rejected |-> f.rejected, val |-> f.val, store |-> store2]

\* loadData whose catch block returns [] instead of falling through to the
\* baseline
loadData_CatchReturnsEmpty(store, name) ==
    LET cached == getItem(store, name)
        parsed == JSONparse(cached)
    IN  IF Truthy(cached)
        THEN IF parsed.throws
             THEN [rejected |-> FALSE, val |-> <<>>, store |-> removeItem(store, name)]
             ELSE [rejected |-> FALSE, val |-> parsed.val, store |-> store]
        ELSE LET f == fetchBaseline(name)
             IN  [rejected |-> f.rejected, val |-> f.val, store |-> store]

\* loadData(name): the outcome and the storage it leaves
loadData(store, name) ==
    LET cached == getItem(store, name)
        parsed == JSONparse(cached)
    IN  IF Truthy(cached) /\ ~parsed.throws
        THEN [rejected |-> FALSE, val |-> parsed.val, store |-> store]
        ELSE LET store2 == IF Truthy(cached) THEN removeItem(store, name) ELSE store
                 f == fetchBaseline(name)
             IN  [rejected |-> f.rejected, val |-> f.val, store |-> store2]

\* saveData that empties the storage before it writes (localStorage.clear())
saveData_ClearsOthers(store, name, data) ==
    setItem([k \in DOMAIN store |-> Absent], name, JSONstringify(data))

saveData(store, name, data) == setItem(store, name, JSONstringify(data))

\* resetAllData(): every key starts with STORAGE_PREFIX
resetAllData(store) == [k \in DOMAIN store |-> Absent]

STORAGE_PREFIX == "openschool_"

\* the localStorage keys that are not entity overlays, as <<prefix, rest>>:
\* the two preferences of the page and a key of another application served
\* from the same origin
ThemeKey == <<STORAGE_PREFIX, "theme">>
MotionKey == <<STORAGE_PREFIX, "reduce_motion">>
ForeignKey == <<"", "lang">>
OtherKeys == {ThemeKey, MotionKey, ForeignKey}

\* getItem of a key that is not set gives null
NoItem == "null"

\* key.startsWith(prefix)
startsWith(key, prefix) == key[1] = prefix

\* the reset that knows the entity overlays only
resetAllData_OverlaysOnly(local) == local

\* resetAllData over the keys that are not entity overlays: the ones
\* starting with the prefix are collected, then removed
resetAllData_OtherKeys(local) ==
    LET keys == {k \in DOMAIN local : local[k] # NoItem /\ startsWith(k, STORAGE_PREFIX)}
    IN  [k \in DOMAIN local |-> IF k \in keys THEN NoItem ELSE local[k]]

\* setupThemeToggle, setupMotionToggle at page load: the attributes of
\* <html> derived from the stored preferences
htmlAttributes(local) ==
    [dataTheme |-> IF local[ThemeKey] # NoItem THEN local[ThemeKey] ELSE "light",
     dataReduceMotion |-> IF local[MotionKey] = "true" THEN "true" ELSE NoItem]

\* a browser with no preference stored and a session
BrowserOf(local, session) ==
    [local |-> local, session |-> session, html |-> htmlAttributes(local)]

NeverSaved == [n \in Names |-> [set |-> FALSE, data |-> <<>>]]

-----------------------------------------------------------------------------
(* Sample data: data/sample/*.json as the modules hold it after init *)

usersData ==
    << [id |-> "t1", role |-> "teacher"],
       [id |-> "s1", role |-> "student"],
       [id |-> "s2", role |-> "student"] >>

classesData ==
    << [id |-> "c1", teacher_id |-> "t1"],
       [id |-> "c2", teacher_id |-> "t2"] >>

enrollmentsData ==
    << [student_id |-> "s1", class_id |-> "c1", status |-> "active"],
       [student_id |-> "s2", class_id |-> "c1", status |-> "active"],
       [student_id |-> "s1", class_id |-> "c2", status |-> "active"],
       [student_id |-> "s2", class_id |-> "c2", status |-> "withdrawn"] >>

BaseAssignments ==
    << [id |-> <<"a", 0>>, class_id |-> "c1", max_points |-> 2, weight |-> 50,
        created_by |-> "t1", status |-> "closed"],
       [id |-> <<"a", -1>>, class_id |-> "c1", max_points |-> 2, weight |-> 50,
        created_by |-> "t1", status |-> "published"] >>

BaseSubmissions ==
    << [id |-> <<"sub", 0>>, assignment_id |-> <<"a", 0>>, student_id |-> "s1",
        content |-> "essay", grade |-> 2, feedback |-> "", status |-> "graded"] >>

BaseGrades ==
    << [id |-> <<"g", 0>>, student_id |-> "s1", class_id |-> "c1",
        assignment_id |-> <<"a", 0>>, points |-> 2, max_points |-> 2,
        weight |-> 50, letter_grade |-> "A+", graded_by |-> "t1",
        comments |-> ""] >>

BaseAttendance ==
    << [id |-> <<"att", 0>>, class_id |-> "c2", student_id |-> "s1",
        date |-> "d2", status |-> "late", recorded_by |-> "t1"] >>

BaseData ==
    [attendance |-> BaseAttendance, submissions |-> BaseSubmissions,
     grades |-> BaseGrades, assignments |-> BaseAssignments,
     announcements |-> <<>>]

BaselineOk == [n \in Names |-> [status |-> "ok", data |-> BaseData[n]]]

-----------------------------------------------------------------------------
(* The record store on its own: save, load and reset of two entity names,  *)
(* from every kind of overlay and baseline.                                *)

StoreNames == {"grades", "attendance"}

StoreData(name) ==
    {<<>>, BaseData[name],
     BaseData[name] \o <<[BaseData[name][1] EXCEPT !.id = <<"x", 1>>]>>}

StoreTexts(name) ==
    {Absent, EmptyText, Malformed} \cup {JSONstringify(d) : d \in StoreData(name)}

FetchStatus == {"ok", "http_error", "network_error", "bad_json"}

Idle == [op |-> "none"]

\* the browser of a first visit, the first user logged in
FreshBrowser ==
    BrowserOf([k \in OtherKeys |-> IF k = ForeignKey THEN "en" ELSE NoItem], usersData[1].id)

\* the tables the gradebook module holds after init over the sample data
SampleGradebook ==
    [gradesData |-> BaseGrades, assignmentsData |-> BaseAssignments,
     classesData |-> classesData, enrollmentsData |-> enrollmentsData,
     usersData |-> usersData]

\* the import command has not been run
NoRun == [phase |-> "none"]

InitPage ==
    /\ user = usersData[1]
    /\ assignmentsData = <<>>
    /\ submissionsData = <<>>
    /\ attendanceData = <<>>
    /\ announcementsData = <<>>
    /\ modal = [kind |-> "none", visible |-> FALSE]
    /\ roster = [classId |-> "", date |-> "", students |-> <<>>, pressed |-> <<>>]
    /\ toast = [message |-> "", type |-> ""]
    /\ nextId = 0
    /\ last = Idle
    /\ saved = NeverSaved
    /\ gradebook = SampleGradebook
    /\ importer = NoRun
    /\ browser = FreshBrowser

InitStore ==
    /\ \E tg \in StoreTexts("grades"), ta \in StoreTexts("attendance") :
           localStorage = [n \in Names |-> IF n = "grades" THEN tg
                                          ELSE IF n = "attendance" THEN ta
                                          ELSE Absent]
    /\ \E sg \in FetchStatus, sa \in FetchStatus :
           baseline = [n \in Names |->
                          [status |-> IF n = "grades" THEN sg
                                      ELSE IF n = "attendance" THEN sa
                                      ELSE "ok",
                           data |-> BaseData[n]]]
    /\ InitPage

PageUnchanged ==
    UNCHANGED <<user, assignmentsData, submissionsData, attendanceData,
                announcementsData, modal, roster, toast, nextId>>

\* nothing of the page or the store changes
OnlyLast ==
    UNCHANGED <<localStorage, baseline, user, assignmentsData, submissionsData,
                attendanceData, announcementsData, modal, roster, toast,
                nextId, saved, browser>>

\* saveData(name, data)
Save(name, data) ==
    /\ localStorage' = saveData(localStorage, name, data)
    /\ saved' = [saved EXCEPT ![name] = [set |-> TRUE, data |-> data]]
    /\ last' = [op |-> "save", name |-> name]
    /\ UNCHANGED <<baseline, gradebook, importer, browser>>
    /\ PageUnchanged

\* await loadData(name)
Load(name) ==
    LET r == loadData(localStorage, name)
    IN  /\ localStorage' = r.store
        /\ last' = [op |-> "load", name |-> name, cached |-> localStorage[name],
                    rejected |-> r.rejected, val |-> r.val]
        /\ UNCHANGED <<baseline, gradebook, importer, browser, saved>>
        /\ PageUnchanged

\* resetAllData() from the console
Reset ==
    /\ localStorage' = resetAllData(localStorage)
    /\ browser' = [browser EXCEPT !.local = resetAllData_OtherKeys(@)]
    /\ saved' = NeverSaved
    /\ last' = [op |-> "reset"]
    /\ UNCHANGED <<baseline, gradebook, importer>>
    /\ PageUnchanged

\* setSession(user)
SetSession(u) ==
    /\ browser' = [browser EXCEPT !.session = u.id]
    /\ last' = [op |-> "setSession"]
    /\ UNCHANGED <<localStorage, baseline, gradebook, importer, saved>>
    /\ PageUnchanged

\* clearSession()
ClearSession ==
    /\ browser' = [browser EXCEPT !.session = NoItem]
    /\ last' = [op |-> "clearSession"]
    /\ UNCHANGED <<localStorage, baseline, gradebook, importer, saved>>
    /\ PageUnchanged

\* click on theme-toggle
ThemeToggle ==
    LET next == IF browser.html.dataTheme = "dark" THEN "light" ELSE "dark"
    IN  /\ browser' = [browser EXCEPT !.html.dataTheme = next, !.local[ThemeKey] = next]
        /\ last' = [op |-> "theme"]
        /\ UNCHANGED <<localStorage, baseline, gradebook, importer, saved>>
        /\ PageUnchanged

\* click on motion-toggle
MotionToggle ==
    LET next == IF browser.html.dataReduceMotion = "true" THEN "false" ELSE "true"
    IN  /\ browser' = [browser EXCEPT !.html.dataReduceMotion = next, !.local[MotionKey] = next]
        /\ toast' = [message |-> IF next = "true" THEN "Reduced motion enabled."
                                 ELSE "Animations enabled.", type |-> "info"]
        /\ last' = [op |-> "motion"]
        /\ UNCHANGED <<localStorage, baseline, gradebook, importer, saved,
                       user, assignmentsData, submissionsData, attendanceData,
                       announcementsData, modal, roster, nextId>>

NextStore ==
    \/ \E n \in StoreNames : \E d \in StoreData(n) : Save(n, d)
    \/ \E n \in StoreNames : Load(n)
    \/ Reset

SpecStore == InitStore /\ [][NextStore]_vars

\* the store together with the preferences and the session
NextReset ==
    \/ \E d \in StoreData("grades") : Save("grades", d)
    \/ \E n \in StoreNames : Load(n)
    \/ Reset
    \/ \E u \in {x \in Range(usersData) : x.id \in {"t1", "s1"}} : SetSession(u)
    \/ ClearSession
    \/ ThemeToggle
    \/ MotionToggle

SpecReset == InitStore /\ [][NextReset]_vars

-----------------------------------------------------------------------------
(* Texts of the CSV codec: a text is a sequence of tokens, a token being one *)
(* of the four characters the codec looks at or a run of other characters.   *)

COMMA == "COMMA"
QUOTE == "QUOTE"
LF == "LF"
CR == "CR"
SP == "SP"

RECURSIVE Flatten(_)
Flatten(seqs) == IF seqs = <<>> THEN <<>> ELSE Head(seqs) \o Flatten(Tail(seqs))

\* Array.prototype.join with a one-token separator
RECURSIVE join(_, _)
join(parts, sep) ==
    IF parts = <<>> THEN <<>>
    ELSE IF Len(parts) = 1 THEN parts[1]
    ELSE parts[1] \o <<sep>> \o join(Tail(parts), sep)

\* exportCSV: one value of a row, quoted when it holds a comma, a quote or a
\* newline, its quotes doubled
csvField(str) ==
    IF \E i \in 1..Len(str) : str[i] \in {COMMA, QUOTE, LF}
    THEN <<QUOTE>>
         \o Flatten([i \in 1..Len(str) |->
                        IF str[i] = QUOTE THEN <<QUOTE, QUOTE>> ELSE <<str[i]>>])
         \o <<QUOTE>>
    ELSE str

\* row[c] ?? '' then String(val)
cellOf(row, c) == IF c \in DOMAIN row THEN row[c] ELSE <<>>

\* exportCSV(data, filename, columns): the text downloaded, nothing when data
\* is empty
exportCSV(data, cols) ==
    IF data = <<>> THEN [download |-> FALSE, csv |-> <<>>]
    ELSE LET header == join([j \in 1..Len(cols) |-> <<cols[j]>>], COMMA)
             rows == [i \in 1..Len(data) |->
                        join([j \in 1..Len(cols) |-> csvField(cellOf(data[i], cols[j]))],
                             COMMA)]
         IN  [download |-> TRUE, csv |-> join(<<header>> \o rows, LF)]

-----------------------------------------------------------------------------
(* js/components/assignments.js *)

\* Number(input.value) for the texts the forms are given: '' converts to 0,
\* a non-numeric text to NaN
NumberOf(text) ==
    CASE text = "" -> [nan |-> FALSE, n |-> 0]
      [] text = "-1" -> [nan |-> FALSE, n |-> -1]
      [] text = "0" -> [nan |-> FALSE, n |-> 0]
      [] text = "1" -> [nan |-> FALSE, n |-> 1]
      [] text = "2" -> [nan |-> FALSE, n |-> 2]
      [] text = "3" -> [nan |-> FALSE, n |-> 3]
      [] OTHER -> [nan |-> TRUE, n |-> 0]

\* Number(input.value) of the weight field, in hundredths
WeightOf(text) ==
    CASE text = "" -> 0
      [] text = "0" -> 0
      [] text = "0.5" -> 50
      [] text = "1" -> 100
      [] OTHER -> 200

PointsTexts == {"", "abc", "-1", "0", "1", "2", "3"}
FeedbackTexts == {"", "good"}
ContentTexts == {"", "essay"}

\* points / max_points * 100 as the fraction num/den; 0/0 is NaN
Pct(points, max_points) == [num |-> points * 100, den |-> max_points]

\* pct >= t; every comparison with NaN is false
AtLeast(pct, t) == pct.den > 0 /\ pct.num >= t * pct.den

\* the bands open on their lower bound (pct > t)
getLetterGrade_OpenLower(pct) ==
    LET Above(t) == pct.den > 0 /\ pct.num > t * pct.den
    IN  IF Above(97) THEN "A+" ELSE IF Above(93) THEN "A"
        ELSE IF Above(90) THEN "A-" ELSE IF Above(87) THEN "B+"
        ELSE IF Above(83) THEN "B" ELSE IF Above(80) THEN "B-"
        ELSE IF Above(77) THEN "C+" ELSE IF Above(73) THEN "C"
        ELSE IF Above(70) THEN "C-" ELSE IF Above(67) THEN "D+"
        ELSE IF Above(63) THEN "D" ELSE IF Above(60) THEN "D-"
        ELSE "F"

getLetterGrade(pct) ==
    IF AtLeast(pct, 97) THEN "A+"
    ELSE IF AtLeast(pct, 93) THEN "A"
    ELSE IF AtLeast(pct, 90) THEN "A-"
    ELSE IF AtLeast(pct, 87) THEN "B+"
    ELSE IF AtLeast(pct, 83) THEN "B"
    ELSE IF AtLeast(pct, 80) THEN "B-"
    ELSE IF AtLeast(pct, 77) THEN "C+"
    ELSE IF AtLeast(pct, 73) THEN "C"
    ELSE IF AtLeast(pct, 70) THEN "C-"
    ELSE IF AtLeast(pct, 67) THEN "D+"
    ELSE IF AtLeast(pct, 63) THEN "D"
    ELSE IF AtLeast(pct, 60) THEN "D-"
    ELSE "F"

\* generateId(prefix)
generateId(prefix) == <<prefix, nextId + 1>>

NoModal == [kind |-> "none", visible |-> FALSE]
NoRoster == [classId |-> "", date |-> "", students |-> <<>>, pressed |-> <<>>]
NoToast == [message |-> "", type |-> ""]

\* closeModal(): the dialog is hidden; what it showed can no longer be acted on
closeModal == NoModal

\* renderTeacherAssignments: myAssignments
teacherAssignments ==
    LET myClassIds == {c.id : c \in {c \in Range(classesData) :
                            user.role = "admin" \/ c.teacher_id = user.id}}
    IN  {a \in Range(assignmentsData) : a.class_id \in myClassIds}

\* renderStudentAssignments: myAssignments
studentAssignments ==
    LET myClassIds == {e.class_id : e \in {e \in Range(enrollmentsData) :
                            e.student_id = user.id /\ e.status = "active"}}
    IN  {a \in Range(assignmentsData) :
            a.class_id \in myClassIds /\ a.status = "published"}

\* the Submit button rendered on every card, submitted or not
submitButtons_NoGate == {a.id : a \in studentAssignments}

\* renderStudentAssignments: the assignments whose card has a Submit button
submitButtons ==
    {a.id : a \in {a \in studentAssignments :
        ~\E s \in Range(submissionsData) :
            s.assignment_id = a.id /\ s.student_id = user.id}}

\* a Grade button on every card, graded or not
gradeButtons_NoGate(assignmentId) ==
    {s.id : s \in {s \in Range(submissionsData) : s.assignment_id = assignmentId}}

\* showSubmissions: the submissions whose card has a Grade button
gradeButtons(assignmentId) ==
    {s.id : s \in {s \in Range(submissionsData) :
        s.assignment_id = assignmentId /\ s.status # "graded"}}

AppUnchanged == UNCHANGED <<baseline, gradebook, importer, browser, user, attendanceData, announcementsData, roster, saved>>

\* click on a card's Submit button: showSubmitModal(assignmentId, user)
ShowSubmitModal(assignmentId) ==
    /\ user.role = "student"
    /\ assignmentId \in submitButtons
    /\ modal' = [kind |-> "submit", visible |-> TRUE, assignmentId |-> assignmentId]
    /\ last' = Idle
    /\ UNCHANGED <<localStorage, assignmentsData, submissionsData, toast, nextId>>
    /\ AppUnchanged

\* click on modal-submit
ModalSubmit(content) ==
    /\ modal.kind = "submit" /\ modal.visible
    /\ IF content = ""
       THEN /\ toast' = [message |-> "Please enter your submission.", type |-> "warning"]
            /\ last' = [op |-> "submit", ok |-> FALSE]
            /\ UNCHANGED <<localStorage, submissionsData, modal, nextId>>
       ELSE LET submission ==
                    [id |-> generateId("sub"), assignment_id |-> modal.assignmentId,
                     student_id |-> user.id, content |-> content, grade |-> Null,
                     feedback |-> "", status |-> "submitted"]
                data == Append(submissionsData, submission)
            IN  /\ nextId < MaxId
                /\ nextId' = nextId + 1
                /\ submissionsData' = data
                /\ localStorage' = saveData(localStorage, "submissions", data)
                /\ modal' = closeModal
                /\ toast' = [message |-> "Submission received!", type |-> "success"]
                /\ last' = [op |-> "submit", ok |-> TRUE, id |-> submission.id]
    /\ UNCHANGED assignmentsData
    /\ AppUnchanged

\* modal-cancel, modal-close, Escape, click on the overlay
ModalCancel ==
    /\ modal.visible
    /\ modal' = closeModal
    /\ last' = Idle
    /\ UNCHANGED <<localStorage, assignmentsData, submissionsData, toast, nextId>>
    /\ AppUnchanged

\* click on a row's View button: showSubmissions(assignmentId, user)
ShowSubmissions(assignmentId) ==
    /\ user.role \in {"teacher", "admin"}
    /\ \E a \in teacherAssignments :
          /\ a.id = assignmentId
          /\ modal' = [kind |-> "submissions", visible |-> TRUE, assignment |-> a]
    /\ last' = Idle
    /\ UNCHANGED <<localStorage, assignmentsData, submissionsData, toast, nextId>>
    /\ AppUnchanged

\* click on a Grade button: closeModal(); showGradeModal(subId, assignment, user)
ShowGradeModal(subId) ==
    /\ modal.kind = "submissions" /\ modal.visible
    /\ subId \in gradeButtons(modal.assignment.id)
    /\ LET idx == findIndex(submissionsData, {s \in Range(submissionsData) : s.id = subId})
       IN  modal' = [kind |-> "grade", visible |-> TRUE,
                     assignment |-> modal.assignment, subId |-> subId,
                     student_id |-> submissionsData[idx].student_id]
    /\ last' = Idle
    /\ UNCHANGED <<localStorage, assignmentsData, submissionsData, toast, nextId>>
    /\ AppUnchanged


\* modal-grade-save: the range check on Number(grade-points.value)
pointsRejected(points, assignment) ==
    points.nan \/ points.n < 0 \/ points.n > assignment.max_points

\* modal-grade-save: the array the new grade record is appended to,
\* JSON.parse(localStorage.getItem('openschool_grades') || '[]')
gradesForAppend(store) ==
    LET cached == getItem(store, "grades")
    IN  JSONparse(IF Truthy(cached) THEN cached ELSE JSONstringify(<<>>))

\* modal-grade-save: the grade record; `feedback || null` is kept as the
\* text, '' standing for null
gradeRecord(points, feedback, assignment, student_id) ==
    [id |-> generateId("g"),
     student_id |-> student_id,
     class_id |-> assignment.class_id,
     assignment_id |-> assignment.id,
     points |-> points,
     max_points |-> assignment.max_points,
     weight |-> IF assignment.weight # 0 THEN assignment.weight ELSE 25,
     letter_grade |-> getLetterGrade(Pct(points, assignment.max_points)),
     graded_by |-> user.id,
     comments |-> feedback]

\* modal-grade-save: the submission update
gradedSubmissions(subs, subId, points, feedback) ==
    LET idx == findIndex(subs, {s \in Range(subs) : s.id = subId})
    IN  IF idx > 0
        THEN [subs EXCEPT ![idx] = [@ EXCEPT !.grade = points,
                                             !.feedback = feedback,
                                             !.status = "graded"]]
        ELSE subs

\* click on modal-grade-save
ModalGradeSave(pointsText, feedback) ==
    /\ modal.kind = "grade" /\ modal.visible
    /\ LET points == NumberOf(pointsText)
           assignment == modal.assignment
       IN  IF pointsRejected(points, assignment)
           THEN /\ toast' = [message |-> "Points must be between 0 and max_points.",
                             type |-> "warning"]
                /\ last' = [op |-> "grade", ok |-> FALSE, text |-> pointsText,
                            max_points |-> assignment.max_points]
                /\ UNCHANGED <<localStorage, submissionsData, modal, nextId>>
           ELSE LET idx == findIndex(submissionsData, {s \in Range(submissionsData) : s.id = modal.subId})
                    subs == gradedSubmissions(submissionsData, modal.subId, points.n, feedback)
                    store1 == IF idx > 0 THEN saveData(localStorage, "submissions", subs)
                              ELSE localStorage
                    gradesData == gradesForAppend(store1)
                    rec == gradeRecord(points.n, feedback, assignment, modal.student_id)
                    grades == Append(gradesData.val, rec)
                IN  /\ nextId < MaxId
                    /\ submissionsData' = subs
                    /\ IF gradesData.throws
                       THEN \* JSON.parse throws: the handler ends after the first write
                            /\ localStorage' = store1
                            /\ last' = [op |-> "grade", ok |-> FALSE, thrown |-> TRUE,
                                        text |-> pointsText,
                                        max_points |-> assignment.max_points]
                            /\ UNCHANGED <<modal, toast, nextId>>
                       ELSE /\ nextId' = nextId + 1
                            /\ localStorage' = saveData(store1, "grades", grades)
                            /\ modal' = closeModal
                            /\ toast' = [message |-> "Graded", type |-> "success"]
                            /\ last' = [op |-> "grade", ok |-> TRUE, text |-> pointsText,
                                        max_points |-> assignment.max_points,
                                        points |-> points.n, subId |-> modal.subId]
    /\ UNCHANGED assignmentsData
    /\ AppUnchanged

\* click on new-assignment-btn: showCreateModal(user)
ShowCreateModal ==
    /\ user.role \in {"teacher", "admin"}
    /\ modal' = [kind |-> "create", visible |-> TRUE,
                 classOptions |-> {c.id : c \in {c \in Range(classesData) :
                                                    c.teacher_id = user.id}}]
    /\ last' = Idle
    /\ UNCHANGED <<localStorage, assignmentsData, submissionsData, toast, nextId>>
    /\ AppUnchanged

MaxPointsTexts == {"", "1"}
WeightTexts == {"0", "0.5"}

\* form.checkValidity() of create-assignment-form: class, title and due date
\* are required (title and due date are always filled in here), max points is
\* required with min 0, weight is optional within 0..1
checkValidity(classId, pointsText, weightText) ==
    /\ classId # ""
    /\ pointsText # "" /\ ~NumberOf(pointsText).nan /\ NumberOf(pointsText).n >= 0
    /\ weightText # "" => WeightOf(weightText) \in 0..100

\* click on modal-save of the create form
ModalCreateSave(classId, pointsText, weightText) ==
    /\ modal.kind = "create" /\ modal.visible
    /\ classId \in modal.classOptions
    /\ IF ~checkValidity(classId, pointsText, weightText)
       THEN /\ last' = [op |-> "create", ok |-> FALSE]
            /\ UNCHANGED <<localStorage, assignmentsData, modal, toast, nextId>>
       ELSE LET assignment ==
                    [id |-> generateId("a"), class_id |-> classId,
                     max_points |-> NumberOf(pointsText).n,
                     weight |-> WeightOf(weightText),
                     created_by |-> user.id, status |-> "published"]
                data == Append(assignmentsData, assignment)
            IN  /\ nextId < MaxId
                /\ nextId' = nextId + 1
                /\ assignmentsData' = data
                /\ localStorage' = saveData(localStorage, "assignments", data)
                /\ modal' = closeModal
                /\ toast' = [message |-> "Assignment created!", type |-> "success"]
                /\ last' = [op |-> "create", ok |-> TRUE, assignment |-> assignment]
    /\ UNCHANGED submissionsData
    /\ AppUnchanged

-----------------------------------------------------------------------------
(* js/components/attendance.js *)

Statuses == <<"present", "absent", "late", "excused">>
Dates == {"d1", "d2"}

\* getClassStudents(classId) over the tables the module holds
attendance_getClassStudents(enrollments, users, classId) ==
    LET studentIds == {e.student_id : e \in {e \in Range(enrollments) :
                            e.class_id = classId /\ e.status = "active"}}
    IN  SelectSeq(users, LAMBDA u : u.id \in studentIds)

\* getClassStudents(classId): the ids of the users actively enrolled
getClassStudents(classId) ==
    LET students == attendance_getClassStudents(enrollmentsData, usersData, classId)
    IN  [i \in 1..Len(students) |-> students[i].id]

\* renderRoster: the status whose toggle is rendered pressed for a student
renderedStatus(classId, date, studentId) ==
    LET idx == findIndex(attendanceData, {r \in Range(attendanceData) :
                    r.class_id = classId /\ r.date = date /\ r.student_id = studentId})
        status == IF idx > 0 THEN attendanceData[idx].status ELSE ""
    IN  IF status \in Range(Statuses) THEN status ELSE ""

\* the class dropdown of attendance.init
classOptions ==
    {c.id : c \in {c \in Range(classesData) :
        user.role # "teacher" \/ c.teacher_id = user.id}}

\* change of the class select or the date input: renderRoster(classId, date, user)
RenderRoster(classId, date) ==
    /\ user.role \in {"teacher", "admin"}
    /\ classId \in classOptions \cup {""}
    /\ LET students == IF classId = "" THEN <<>> ELSE getClassStudents(classId)
       IN  roster' = IF Len(students) = 0
                     THEN NoRoster
                     ELSE [classId |-> classId, date |-> date, students |-> students,
                           pressed |-> [sid \in Range(students) |->
                                            renderedStatus(classId, date, sid)]]
    /\ last' = Idle
    /\ UNCHANGED <<localStorage, baseline, gradebook, importer, browser, user, assignmentsData, submissionsData,
                   attendanceData, announcementsData, modal, toast, nextId, saved>>

\* click on a toggle button of the roster
Toggle(studentId, status) ==
    /\ studentId \in Range(roster.students)
    /\ roster' = [roster EXCEPT !.pressed[studentId] = status]
    /\ last' = Idle
    /\ UNCHANGED <<localStorage, baseline, gradebook, importer, browser, user, assignmentsData, submissionsData,
                   attendanceData, announcementsData, modal, toast, nextId, saved>>

\* one toggle group handled by a plain push: no findIndex, no overwrite
upsert_Push(acc, classId, date, studentId, status, by) ==
    IF status = ""
    THEN acc
    ELSE [data |-> Append(acc.data,
                      [id |-> <<"att", acc.ids + 1>>, class_id |-> classId,
                       student_id |-> studentId, date |-> date, status |-> status,
                       recorded_by |-> by]),
          ids |-> acc.ids + 1,
          count |-> acc.count + 1]

\* one toggle group where a student without a selection is marked absent
upsert_ImplicitAbsent(acc, classId, date, studentId, status, by) ==
    LET st == IF status = "" THEN "absent" ELSE status
        existingIdx == findIndex(acc.data, {a \in Range(acc.data) :
                          a.class_id = classId /\ a.student_id = studentId /\ a.date = date})
        record == [id |-> IF existingIdx > 0 THEN acc.data[existingIdx].id
                          ELSE <<"att", acc.ids + 1>>,
                   class_id |-> classId, student_id |-> studentId, date |-> date,
                   status |-> st, recorded_by |-> by]
    IN  [data |-> IF existingIdx > 0
                  THEN [acc.data EXCEPT ![existingIdx] = record]
                  ELSE Append(acc.data, record),
         ids |-> IF existingIdx > 0 THEN acc.ids ELSE acc.ids + 1,
         count |-> acc.count + 1]

\* saveAttendance, one toggle group: the accumulator is the array, the number
\* of ids made and the count
upsert(acc, classId, date, studentId, status, by) ==
    LET existingIdx == findIndex(acc.data, {a \in Range(acc.data) :
                          a.class_id = classId /\ a.student_id = studentId /\ a.date = date})
        record == [id |-> IF existingIdx > 0 THEN acc.data[existingIdx].id
                          ELSE <<"att", acc.ids + 1>>,
                   class_id |-> classId, student_id |-> studentId, date |-> date,
                   status |-> status, recorded_by |-> by]
    IN  IF status = ""
        THEN acc
        ELSE [data |-> IF existingIdx > 0
                       THEN [acc.data EXCEPT ![existingIdx] = record]
                       ELSE Append(acc.data, record),
              ids |-> IF existingIdx > 0 THEN acc.ids ELSE acc.ids + 1,
              count |-> acc.count + 1]

\* saveAttendance: toggles.forEach over the rendered groups, in roster order
RECURSIVE saveLoop(_, _, _)
saveLoop(acc, r, i) ==
    IF i > Len(r.students)
    THEN acc
    ELSE saveLoop(upsert(acc, r.classId, r.date, r.students[i],
                         r.pressed[r.students[i]], user.id), r, i + 1)

\* click on save-roster-attendance: saveAttendance(classId, date, user)
SaveAttendance ==
    /\ Len(roster.students) > 0
    /\ LET done == saveLoop([data |-> attendanceData, ids |-> nextId, count |-> 0],
                            roster, 1)
       IN  /\ done.ids <= MaxId
           /\ nextId' = done.ids
           /\ attendanceData' = done.data
           /\ localStorage' = saveData(localStorage, "attendance", done.data)
           /\ toast' = [message |-> "Saved attendance", type |-> "success"]
           /\ last' = [op |-> "saveAttendance", count |-> done.count,
                       restated |-> Cardinality({i \in 1..Len(attendanceData) :
                                        done.data[i].status # attendanceData[i].status})]
    /\ UNCHANGED <<baseline, gradebook, importer, browser, user, assignmentsData, submissionsData,
                   announcementsData, modal, roster, saved>>

-----------------------------------------------------------------------------
(* js/components/announcements.js *)

\* click on new-announcement-btn: showCreateModal(user)
ShowAnnouncementModal ==
    /\ user.role \in {"admin", "teacher"}
    /\ modal' = [kind |-> "announcement", visible |-> TRUE]
    /\ last' = Idle
    /\ UNCHANGED <<localStorage, baseline, gradebook, importer, browser, user, assignmentsData, submissionsData,
                   attendanceData, announcementsData, roster, toast, nextId, saved>>

\* click on modal-publish
ModalPublish(title, content) ==
    /\ modal.kind = "announcement" /\ modal.visible
    /\ IF title = "" \/ content = ""
       THEN /\ toast' = [message |-> "Title and content are required.", type |-> "warning"]
            /\ last' = [op |-> "publish", ok |-> FALSE]
            /\ UNCHANGED <<localStorage, announcementsData, modal, nextId>>
       ELSE LET announcement == [id |-> generateId("ann"), title |-> title,
                                 author_id |-> user.id, published |-> TRUE]
                data == <<announcement>> \o announcementsData
            IN  /\ nextId < MaxId
                /\ nextId' = nextId + 1
                /\ announcementsData' = data
                /\ localStorage' = saveData(localStorage, "announcements", data)
                /\ modal' = closeModal
                /\ toast' = [message |-> "Announcement published!", type |-> "success"]
                /\ last' = [op |-> "publish", ok |-> TRUE]
    /\ UNCHANGED <<baseline, gradebook, importer, browser, user, assignmentsData, submissionsData, attendanceData,
                   roster, saved>>

-----------------------------------------------------------------------------
(* js/components/gradebook.js *)

\* getLetterGrade of the gradebook module
gradebook_getLetterGrade(pct) ==
    IF AtLeast(pct, 97) THEN "A+"
    ELSE IF AtLeast(pct, 93) THEN "A"
    ELSE IF AtLeast(pct, 90) THEN "A-"
    ELSE IF AtLeast(pct, 87) THEN "B+"
    ELSE IF AtLeast(pct, 83) THEN "B"
    ELSE IF AtLeast(pct, 80) THEN "B-"
    ELSE IF AtLeast(pct, 77) THEN "C+"
    ELSE IF AtLeast(pct, 73) THEN "C"
    ELSE IF AtLeast(pct, 70) THEN "C-"
    ELSE IF AtLeast(pct, 67) THEN "D+"
    ELSE IF AtLeast(pct, 63) THEN "D"
    ELSE IF AtLeast(pct, 60) THEN "D-"
    ELSE "F"

\* the roster without the status filter
gradebook_getClassStudents_AnyStatus(gb, classId) ==
    LET studentIds == {e.student_id : e \in {e \in Range(gb.enrollmentsData) :
                            e.class_id = classId}}
    IN  SelectSeq(gb.usersData, LAMBDA u : u.id \in studentIds)

\* getClassStudents(classId) of the gradebook: the users actively enrolled
gradebook_getClassStudents(gb, classId) ==
    LET studentIds == {e.student_id : e \in {e \in Range(gb.enrollmentsData) :
                            e.class_id = classId /\ e.status = "active"}}
    IN  SelectSeq(gb.usersData, LAMBDA u : u.id \in studentIds)

\* numbers of the average are fractions num/den, kept in lowest terms
RECURSIVE GCD(_, _)
GCD(a, b) == IF b = 0 THEN a ELSE GCD(b, a % b)

Frac(n, d) == LET g == GCD(n, d) IN IF g = 0 THEN [num |-> 0, den |-> 1]
                                     ELSE [num |-> n \div g, den |-> d \div g]

FracAdd(x, y) == Frac(x.num * y.den + y.num * x.den, x.den * y.den)

\* (points / max_points) * weight, the weight in hundredths
weighted(points, max_points, weight) == Frac(points * weight, max_points)

\* (totalWeightedScore / totalWeight * 100).toFixed(1), in tenths of a
\* percent (round half up)
toFixed1(score, totalWeight) ==
    (20 * 100 * score.num + score.den * totalWeight) \div (2 * score.den * totalWeight)

\* the em dash shown in place of an average or a letter
Dash == "-"

ZeroTotals == [score |-> [num |-> 0, den |-> 1], weight |-> 0]

\* grade.weight || a.weight || 0.25
classWeight(grade, a) ==
    IF grade.weight # 0 THEN grade.weight
    ELSE IF a.weight # 0 THEN a.weight ELSE 25

\* renderClassGradebook: the totals of one student's row over the class's
\* assignments, the first grade found for each
RECURSIVE classTotals(_, _, _, _)
classTotals(gb, sid, as, i) ==
    IF i = 0 THEN ZeroTotals
    ELSE LET acc == classTotals(gb, sid, as, i - 1)
             a == as[i]
             idx == findIndex(gb.gradesData, {g \in Range(gb.gradesData) :
                        g.student_id = sid /\ g.assignment_id = a.id})
             grade == gb.gradesData[idx]
         IN  IF idx = 0 THEN acc
             ELSE [score |-> FracAdd(acc.score,
                        weighted(grade.points, grade.max_points, classWeight(grade, a))),
                   weight |-> acc.weight + classWeight(grade, a)]

\* the Weighted Avg and Letter cells of one student's row
classRow(gb, classId, sid) ==
    LET as == SelectSeq(gb.assignmentsData,
                        LAMBDA a : a.class_id = classId /\ a.status # "draft")
        t == classTotals(gb, sid, as, Len(as))
    IN  IF t.weight > 0
        THEN [avg |-> toFixed1(t.score, t.weight), shown |-> TRUE,
              letter |-> gradebook_getLetterGrade(
                            [num |-> toFixed1(t.score, t.weight), den |-> 10])]
        ELSE [avg |-> 0, shown |-> FALSE, letter |-> Dash]

\* renderClassGradebook(classId)
RenderClassGradebook(classId) ==
    /\ classId # ""
    /\ LET students == gradebook_getClassStudents(gradebook, classId)
       IN  last' = [op |-> "classGradebook", classId |-> classId,
                    rows |-> [i \in 1..Len(students) |->
                                [student_id |-> students[i].id,
                                 row |-> classRow(gradebook, classId, students[i].id)]]]
    /\ UNCHANGED <<gradebook, importer>>
    /\ OnlyLast

\* renderStudentGrades: the totals over the student's grades of one class
RECURSIVE studentTotals(_, _)
studentTotals(classGrades, i) ==
    IF i = 0 THEN ZeroTotals
    ELSE LET acc == studentTotals(classGrades, i - 1)
             g == classGrades[i]
         IN  [score |-> FracAdd(acc.score, weighted(g.points, g.max_points, g.weight)),
              weight |-> acc.weight + g.weight]

\* the Weighted Average line of one class table of the student view
studentAverage(classGrades) ==
    LET t == studentTotals(classGrades, Len(classGrades))
    IN  IF t.weight > 0
        THEN [avg |-> toFixed1(t.score, t.weight), shown |-> TRUE]
        ELSE [avg |-> 0, shown |-> FALSE]

\* renderStudentGrades(user)
RenderStudentGrades(u) ==
    /\ u.role = "student"
    /\ LET gb == gradebook
           mine == SelectSeq(gb.enrollmentsData,
                             LAMBDA e : e.student_id = u.id /\ e.status = "active")
           myGrades == SelectSeq(gb.gradesData, LAMBDA g : g.student_id = u.id)
           tables == SelectSeq(mine, LAMBDA e :
                        /\ \E c \in Range(gb.classesData) : c.id = e.class_id
                        /\ \E g \in Range(myGrades) : g.class_id = e.class_id)
       IN  last' = [op |-> "studentGrades", student_id |-> u.id,
                    none |-> (myGrades = <<>>),
                    classes |-> IF myGrades = <<>> THEN <<>>
                                ELSE [i \in 1..Len(tables) |->
                                        [class_id |-> tables[i].class_id,
                                         row |-> studentAverage(SelectSeq(myGrades,
                                            LAMBDA g : g.class_id = tables[i].class_id))]]]
    /\ UNCHANGED <<gradebook, importer>>
    /\ OnlyLast

-----------------------------------------------------------------------------
(* scripts/csv-to-json.js *)

Whitespace == {SP, LF, CR}

\* String.prototype.trim
RECURSIVE trimStart(_)
trimStart(str) ==
    IF str # <<>> /\ Head(str) \in Whitespace THEN trimStart(Tail(str)) ELSE str

RECURSIVE trimEnd(_)
trimEnd(str) ==
    IF str # <<>> /\ str[Len(str)] \in Whitespace
    THEN trimEnd(SubSeq(str, 1, Len(str) - 1)) ELSE str

trim(str) == trimEnd(trimStart(str))

\* text.replace(/\r\n/g, '\n').replace(/\r/g, '\n')
RECURSIVE normalizeNewlines(_)
normalizeNewlines(text) ==
    IF text = <<>> THEN <<>>
    ELSE IF Head(text) = CR /\ Len(text) > 1 /\ text[2] = LF
         THEN <<LF>> \o normalizeNewlines(Tail(Tail(text)))
    ELSE IF Head(text) = CR THEN <<LF>> \o normalizeNewlines(Tail(text))
    ELSE <<Head(text)>> \o normalizeNewlines(Tail(text))

\* a row is kept when some field of it is not empty
pushRow(rows, row) == IF \E j \in 1..Len(row) : row[j] # <<>> THEN Append(rows, row) ELSE rows

\* parseCSV: the loop over the characters from position i in state st, and
\* the last field
RECURSIVE parseLoop(_, _, _)
parseLoop(chars, i, st) ==
    IF i > Len(chars)
    THEN pushRow(st.rows, Append(st.row, trim(st.field)))
    ELSE LET c == chars[i]
             next == IF i < Len(chars) THEN chars[i + 1] ELSE ""
         IN  IF st.inQuotes
             THEN IF c = QUOTE /\ next = QUOTE
                  THEN parseLoop(chars, i + 2, [st EXCEPT !.field = Append(@, QUOTE)])
                  ELSE IF c = QUOTE
                  THEN parseLoop(chars, i + 1, [st EXCEPT !.inQuotes = FALSE])
                  ELSE parseLoop(chars, i + 1, [st EXCEPT !.field = Append(@, c)])
             ELSE IF c = QUOTE
                  THEN parseLoop(chars, i + 1, [st EXCEPT !.inQuotes = TRUE])
                  ELSE IF c = COMMA
                  THEN parseLoop(chars, i + 1,
                                 [st EXCEPT !.row = Append(@, trim(st.field)),
                                            !.field = <<>>])
                  ELSE IF c = LF
                  THEN parseLoop(chars, i + 1,
                                 [st EXCEPT
                                    !.rows = pushRow(@, Append(st.row, trim(st.field))),
                                    !.row = <<>>, !.field = <<>>])
                  ELSE parseLoop(chars, i + 1, [st EXCEPT !.field = Append(@, c)])

\* parseCSV(text)
parseCSV(text) ==
    parseLoop(normalizeNewlines(text), 1,
              [rows |-> <<>>, row |-> <<>>, field |-> <<>>, inQuotes |-> FALSE])

FIELD_MAPS ==
    [
     users |->
       [student_id |-> "id", teacher_id |-> "id", user_id |-> "id",
        id |-> "id", username |-> "username", user_name |-> "username",
        login |-> "username", display_name |-> "display_name",
        name |-> "display_name", full_name |-> "display_name",
        first_name |-> "_first_name", last_name |-> "_last_name",
        email |-> "email", email_address |-> "email", role |-> "role",
        user_type |-> "role", type |-> "role", year_level |-> "year_level",
        grade_level |-> "year_level", year |-> "year_level"],
     classes |->
       [class_id |-> "id", id |-> "id", code |-> "id", class_name |-> "name",
        name |-> "name", subject |-> "name", teacher_id |-> "teacher_id",
        teacher |-> "teacher_id", room |-> "room", classroom |-> "room",
        year_level |-> "year_level", grade |-> "year_level"],
     enrollments |->
       [enrollment_id |-> "id", id |-> "id", student_id |-> "student_id",
        student |-> "student_id", class_id |-> "class_id",
        class |-> "class_id"],
     attendance |->
       [record_id |-> "id", id |-> "id", class_id |-> "class_id",
        class |-> "class_id", student_id |-> "student_id",
        student |-> "student_id", date |-> "date", status |-> "status",
        attendance_status |-> "status", marked_by |-> "marked_by",
        teacher |-> "marked_by"],
     assignments |->
       [assignment_id |-> "id", id |-> "id", class_id |-> "class_id",
        class |-> "class_id", title |-> "title", name |-> "title",
        description |-> "description", details |-> "description",
        due_date |-> "due_date", due |-> "due_date",
        max_points |-> "max_points", points |-> "max_points",
        total_marks |-> "max_points", weight |-> "weight",
        status |-> "status"],
     submissions |->
       [submission_id |-> "id", id |-> "id",
        assignment_id |-> "assignment_id", student_id |-> "student_id",
        student |-> "student_id", submitted_at |-> "submitted_at",
        submission_date |-> "submitted_at", content |-> "content",
        body |-> "content", text |-> "content", status |-> "status"],
     grades |->
       [grade_id |-> "id", id |-> "id", assignment_id |-> "assignment_id",
        student_id |-> "student_id", student |-> "student_id",
        points |-> "points", score |-> "points", mark |-> "points",
        letter |-> "letter", grade |-> "letter", feedback |-> "feedback",
        comment |-> "feedback", comments |-> "feedback"],
     timetable |->
       [slot_id |-> "id", id |-> "id", class_id |-> "class_id",
        class |-> "class_id", day |-> "day", day_of_week |-> "day",
        start_time |-> "start_time", start |-> "start_time",
        end_time |-> "end_time", end |-> "end_time", room |-> "room",
        location |-> "room"],
     announcements |->
       [announcement_id |-> "id", id |-> "id", title |-> "title",
        subject |-> "title", body |-> "body", content |-> "body",
        message |-> "body", author_id |-> "author_id",
        author |-> "author_id", priority |-> "priority", status |-> "status"]
    ]

\* property names every object literal inherits from Object.prototype
InheritedKeys == {"constructor", "toString", "valueOf", "hasOwnProperty"}

Undefined == "undefined"

\* FIELD_MAPS[entity]: one of the nine mapping tables, a function inherited
\* from Object.prototype, or undefined
fieldMapOf(entity) ==
    IF entity \in DOMAIN FIELD_MAPS THEN [kind |-> "own", entity |-> entity]
    ELSE IF entity \in InheritedKeys THEN [kind |-> "inherited", entity |-> entity]
    ELSE [kind |-> Undefined, entity |-> entity]

\* fieldMap[header]; a function has the properties name and length
mappedOf(fieldMap, header) ==
    IF fieldMap.kind = "own"
    THEN IF header \in DOMAIN FIELD_MAPS[fieldMap.entity]
         THEN FIELD_MAPS[fieldMap.entity][header] ELSE Undefined
    ELSE IF header = "name"
         THEN (IF fieldMap.entity = "constructor" THEN "Object" ELSE fieldMap.entity)
    ELSE Undefined

\* h.toLowerCase().replace(/\s+/g, '_') of a header cell, as a property name
normalizeHeader(cell) ==
    IF Len(cell) # 1 THEN "?"
    ELSE CASE cell[1] = "First Name" -> "first_name"
           [] cell[1] = "Last Name" -> "last_name"
           [] cell[1] = "ID" -> "id"
           [] OTHER -> cell[1]

\* values of a record: strings and numbers
Str(s) == [t |-> "string", s |-> s, n |-> 0]
Num(n) == [t |-> "number", s |-> <<>>, n |-> n]

\* Number(value) of a cell
NumberOfCell(value) ==
    IF value = <<>> THEN [nan |-> FALSE, n |-> 0]
    ELSE IF Len(value) = 1 THEN NumberOf(value[1])
    ELSE [nan |-> TRUE, n |-> 0]

NumericFields == {"max_points", "points", "weight", "year_level"}

\* the coercion without its zero fallback: NaN is stored
coerce_NoFallback(mapped, value) ==
    IF mapped \in NumericFields
    THEN IF NumberOfCell(value).nan THEN [t |-> "number", s |-> <<"NaN">>, n |-> 0]
         ELSE Num(NumberOfCell(value).n)
    ELSE Str(value)

\* value = Number(value) || 0 for the numeric fields
coerce(mapped, value) ==
    IF mapped \in NumericFields
    THEN IF NumberOfCell(value).nan THEN Num(0) ELSE Num(NumberOfCell(value).n)
    ELSE Str(value)

\* entity.charAt(0)
charAt0(entity) ==
    CASE entity = "users" -> "u"
      [] entity = "classes" -> "c"
      [] entity = "constructor" -> "c"
      [] entity = "enrollments" -> "e"
      [] entity \in {"assignments", "attendance", "announcements"} -> "a"
      [] entity \in {"submissions", "students"} -> "s"
      [] entity = "grades" -> "g"
      [] entity \in {"timetable", "toString"} -> "t"
      [] OTHER -> "?"

\* a property that is undefined or the empty string is falsy
Falsy(record, key) == key \notin DOMAIN record \/ record[key] = Str(<<>>)

NoRecord == [k \in {} |-> Str(<<>>)]

\* convertCSV: the loop over the headers for one row
RECURSIVE mapRow(_, _, _, _)
mapRow(fieldMap, headers, row, j) ==
    IF j = 0 THEN [record |-> NoRecord, firstName |-> <<>>, lastName |-> <<>>]
    ELSE LET acc == mapRow(fieldMap, headers, row, j - 1)
             mapped == mappedOf(fieldMap, headers[j])
             value == IF j <= Len(row) THEN row[j] ELSE <<>>
         IN  IF mapped = Undefined THEN acc
             ELSE IF mapped = "_first_name" THEN [acc EXCEPT !.firstName = value]
             ELSE IF mapped = "_last_name" THEN [acc EXCEPT !.lastName = value]
             ELSE [acc EXCEPT !.record = (mapped :> coerce(mapped, value)) @@ @]

\* the record with the names joined but not trimmed
convertRow_NoTrim(fieldMap, headers, row, i, entity) ==
    LET m == mapRow(fieldMap, headers, row, Len(headers))
        named == IF Falsy(m.record, "display_name")
                    /\ (m.firstName # <<>> \/ m.lastName # <<>>)
                 THEN ("display_name" :> Str(m.firstName \o <<SP>> \o m.lastName))
                      @@ m.record
                 ELSE m.record
    IN  IF Falsy(named, "id")
        THEN ("id" :> Str(<<charAt0(entity), "-imported-", ToString(i)>>)) @@ named
        ELSE named

\* the record with its id generated from the 0-based position of the row
convertRow_ZeroBased(fieldMap, headers, row, i, entity) ==
    LET m == mapRow(fieldMap, headers, row, Len(headers))
        named == IF Falsy(m.record, "display_name")
                    /\ (m.firstName # <<>> \/ m.lastName # <<>>)
                 THEN ("display_name" :> Str(trim(m.firstName \o <<SP>> \o m.lastName)))
                      @@ m.record
                 ELSE m.record
    IN  IF Falsy(named, "id")
        THEN ("id" :> Str(<<charAt0(entity), "-imported-", ToString(i - 1)>>)) @@ named
        ELSE named

\* convertCSV: the record made of data row i
convertRow(fieldMap, headers, row, i, entity) ==
    LET m == mapRow(fieldMap, headers, row, Len(headers))
        named == IF Falsy(m.record, "display_name")
                    /\ (m.firstName # <<>> \/ m.lastName # <<>>)
                 THEN ("display_name" :> Str(trim(m.firstName \o <<SP>> \o m.lastName)))
                      @@ m.record
                 ELSE m.record
    IN  IF Falsy(named, "id")
        THEN ("id" :> Str(<<charAt0(entity), "-imported-", ToString(i)>>)) @@ named
        ELSE named

\* convertCSV(rows, entity): exits with status 1 on an unknown entity
convertCSV(rows, entity) ==
    LET fieldMap == fieldMapOf(entity)
        headers == [j \in 1..Len(rows[1]) |-> normalizeHeader(rows[1][j])]
    IN  IF fieldMap.kind = Undefined THEN [exit |-> TRUE, records |-> <<>>]
        ELSE [exit |-> FALSE,
              records |-> [i \in 1..(Len(rows) - 1) |->
                             convertRow(fieldMap, headers, rows[i + 1], i, entity)]]

NoFile == [written |-> FALSE]

\* the command: node scripts/csv-to-json.js <input.csv> <entity> [output.json]
RunImport ==
    /\ importer.phase = "start"
    /\ LET args == importer.args
           rows == parseCSV(importer.text)
           done(code, err, file) ==
               [importer EXCEPT !.phase = "done"] @@
               [exit |-> code, error |-> err, output |-> file]
       IN  importer' =
             IF Len(args) < 2 THEN done(0, FALSE, NoFile)
             ELSE IF ~importer.exists THEN done(1, TRUE, NoFile)
             ELSE IF rows = <<>> THEN done(1, TRUE, NoFile)
             ELSE LET r == convertCSV(rows, args[2])
                  IN  IF r.exit THEN done(1, TRUE, NoFile)
                      ELSE done(0, FALSE,
                                [written |-> TRUE,
                                 path |-> IF Len(args) >= 3 THEN args[3]
                                          ELSE "data/sample/" \o args[2] \o ".json",
                                 records |-> r.records])
    /\ last' = [op |-> "import"]
    /\ UNCHANGED gradebook
    /\ OnlyLast

-----------------------------------------------------------------------------
(* js/main.js: page load *)

\* initClassPage: the roster of the class page
classPageRoster(tables, classId) ==
    LET studentIds == {e.student_id : e \in {e \in Range(tables.enrollmentsData) :
                            e.class_id = classId /\ e.status = "active"}}
    IN  SelectSeq(tables.usersData, LAMBDA u : u.id \in studentIds)

\* renderStudentGrades: the classes a table is rendered for, the grades apart
studentGradesClassIds(tables, u) ==
    LET mine == SelectSeq(tables.enrollmentsData,
                          LAMBDA e : e.student_id = u.id /\ e.status = "active")
        known == SelectSeq(mine, LAMBDA e :
                              \E c \in Range(tables.classesData) : c.id = e.class_id)
    IN  [i \in 1..Len(known) |-> known[i].class_id]

\* renderStats, student branch: myClassIds
statsClassIds(tables, u) ==
    LET mine == SelectSeq(tables.enrollmentsData,
                          LAMBDA e : e.student_id = u.id /\ e.status = "active")
    IN  [i \in 1..Len(mine) |-> mine[i].class_id]


\* the arrays a module holds after `[...] = await Promise.all([loadData(..), ..])`:
\* when a load rejects the assignment never happens and the arrays stay []
\* the arrays a module would hold if the assignment never happened
loadedFrom_NotAssigned(store, name, needed) == <<>>

loadedFrom(store, name, needed) ==
    IF \E n \in needed : loadData(store, n).rejected
    THEN <<>>
    ELSE loadData(store, name).val

loaded(name, needed) == loadedFrom(localStorage, name, needed)

\* gradebook.init: the five tables of the gradebook module after a page load
gradebookInit(store) ==
    [gradesData |-> loadedFrom(store, "grades", {"grades", "assignments"}),
     assignmentsData |-> loadedFrom(store, "assignments", {"grades", "assignments"}),
     classesData |-> classesData, enrollmentsData |-> enrollmentsData,
     usersData |-> usersData]

\* a page load with session user u (login, role switch, reload): main.init
\* runs every module's init; every entity name is loaded at least once
Reload(u) ==
    /\ user' = u
    /\ localStorage' = [n \in Names |-> loadData(localStorage, n).store[n]]
    /\ assignmentsData' = loaded("assignments", {"assignments", "submissions"})
    /\ submissionsData' = loaded("submissions", {"assignments", "submissions"})
    /\ announcementsData' = loaded("announcements", {"announcements"})
    /\ attendanceData' =
          IF u.role \in {"teacher", "admin"}
          THEN loaded("attendance", Names)
          ELSE <<>>
    /\ modal' = NoModal
    /\ roster' = NoRoster
    /\ toast' = NoToast
    /\ gradebook' = gradebookInit(localStorage)
    /\ browser' = BrowserOf(browser.local, u.id)
    /\ last' = [op |-> "reload"]
    /\ UNCHANGED <<baseline, importer, nextId, saved>>

\* the page as the same user opens it again over the store left behind
Reopened(store) ==
    /\ localStorage' = [n \in Names |-> loadData(store, n).store[n]]
    /\ assignmentsData' = loadedFrom(store, "assignments", {"assignments", "submissions"})
    /\ submissionsData' = loadedFrom(store, "submissions", {"assignments", "submissions"})
    /\ announcementsData' = loadedFrom(store, "announcements", {"announcements"})
    /\ attendanceData' =
          IF user.role \in {"teacher", "admin"}
          THEN loadedFrom(store, "attendance", Names)
          ELSE <<>>
    /\ modal' = NoModal
    /\ roster' = NoRoster
    /\ toast' = NoToast
    /\ gradebook' = gradebookInit(store)
    /\ browser' = BrowserOf(browser.local, browser.session)
    /\ UNCHANGED <<baseline, importer, user, saved>>

\* the handler with its two writes in the other order, ended after the
\* grade record is saved
ModalGradeSaveInterrupted_GradeFirst(pointsText, feedback) ==
    /\ modal.kind = "grade" /\ modal.visible
    /\ LET points == NumberOf(pointsText)
           assignment == modal.assignment
           gradesData == gradesForAppend(localStorage)
           rec == gradeRecord(points.n, feedback, assignment, modal.student_id)
       IN  /\ ~pointsRejected(points, assignment)
           /\ ~gradesData.throws
           /\ nextId < MaxId
           /\ nextId' = nextId + 1
           /\ Reopened(saveData(localStorage, "grades", Append(gradesData.val, rec)))
           /\ last' = [op |-> "grade_interrupted", subId |-> modal.subId]

\* click on modal-grade-save with the page closed (tab closed, browser
\* killed) between the two saveData calls of the handler: the submission
\* update is written, the grade record is not; the page is opened again
ModalGradeSaveInterrupted(pointsText, feedback) ==
    /\ modal.kind = "grade" /\ modal.visible
    /\ LET points == NumberOf(pointsText)
           assignment == modal.assignment
           idx == findIndex(submissionsData, {s \in Range(submissionsData) : s.id = modal.subId})
           subs == gradedSubmissions(submissionsData, modal.subId, points.n, feedback)
       IN  /\ ~pointsRejected(points, assignment)
           /\ idx > 0
           /\ Reopened(saveData(localStorage, "submissions", subs))
           /\ last' = [op |-> "grade_interrupted", subId |-> modal.subId]
           /\ UNCHANGED nextId

\* resetAllData() called from the browser console
ResetAllData ==
    /\ localStorage' = resetAllData(localStorage)
    /\ browser' = [browser EXCEPT !.local = resetAllData_OtherKeys(@)]
    /\ last' = [op |-> "reset"]
    /\ UNCHANGED <<baseline, gradebook, importer, user, assignmentsData, submissionsData, attendanceData,
                   announcementsData, modal, roster, toast, nextId, saved>>

\* the page as loaded by the teacher from the untouched sample data
Init ==
    /\ localStorage = [n \in Names |-> Absent]
    /\ baseline = BaselineOk
    /\ user = usersData[1]
    /\ assignmentsData = BaseAssignments
    /\ submissionsData = BaseSubmissions
    /\ attendanceData = BaseAttendance
    /\ announcementsData = <<>>
    /\ modal = NoModal
    /\ roster = NoRoster
    /\ toast = NoToast
    /\ nextId = 0
    /\ last = Idle
    /\ saved = NeverSaved
    /\ gradebook = SampleGradebook
    /\ importer = NoRun
    /\ browser = FreshBrowser

NextAssignments ==
    \/ \E a \in {x.id : x \in Range(assignmentsData)} : ShowSubmitModal(a)
    \/ \E c \in ContentTexts : ModalSubmit(c)
    \/ ModalCancel
    \/ \E a \in {x.id : x \in Range(assignmentsData)} : ShowSubmissions(a)
    \/ \E s \in {x.id : x \in Range(submissionsData)} : ShowGradeModal(s)
    \/ \E t \in PointsTexts, f \in FeedbackTexts : ModalGradeSave(t, f)
    \/ ShowCreateModal
    \/ \E c \in {"c1"}, t \in MaxPointsTexts, w \in WeightTexts :
          ModalCreateSave(c, t, w)
    \/ \E u \in Range(usersData) : Reload(u)
    \/ ResetAllData

SpecAssignments == Init /\ [][NextAssignments]_vars

\* the assignments page with gradings that may be cut short
NextInterrupted ==
    \/ \E a \in {x.id : x \in Range(assignmentsData)} : ShowSubmitModal(a)
    \/ ModalSubmit("essay")
    \/ ModalCancel
    \/ \E a \in {x.id : x \in Range(assignmentsData)} : ShowSubmissions(a)
    \/ \E sid \in {x.id : x \in Range(submissionsData)} : ShowGradeModal(sid)
    \/ \E t \in {"1", "abc"} : ModalGradeSave(t, "")
    \/ ModalGradeSaveInterrupted("1", "")
    \/ \E u \in {x \in Range(usersData) : x.id \in {"t1", "s1"}} : Reload(u)
    \/ ResetAllData

SpecInterrupted == Init /\ [][NextInterrupted]_vars

\* the texts typed into the Max Points and Weight fields of the create form
CreatePointsTexts == {"", "abc", "-1", "0", "1", "2"}
CreateWeightTexts == {"", "0", "0.5", "1", "2"}

\* the create-assignment dialog with every text of its two number fields
NextCreate ==
    \/ ShowCreateModal
    \/ \E t \in CreatePointsTexts, w \in CreateWeightTexts : ModalCreateSave("c1", t, w)
    \/ ModalCancel

SpecCreate == Init /\ [][NextCreate]_vars

\* the toggles clicked in the behaviours explored
ToggleInputs == {"present", "absent"}

NextAttendance ==
    \/ \E c \in {"", "c1", "c2"}, d \in Dates : RenderRoster(c, d)
    \/ \E sid \in Range(roster.students), st \in ToggleInputs : Toggle(sid, st)
    \/ SaveAttendance
    \/ \E u \in Range(usersData) : Reload(u)
    \/ ResetAllData

SpecAttendance == Init /\ [][NextAttendance]_vars

\* the whole page: every handler of every module, each with one input
Next ==
    \/ \E a \in {x.id : x \in Range(assignmentsData)} : ShowSubmitModal(a)
    \/ ModalSubmit("essay")
    \/ ModalCancel
    \/ \E a \in {x.id : x \in Range(assignmentsData)} : ShowSubmissions(a)
    \/ \E sid \in {x.id : x \in Range(submissionsData)} : ShowGradeModal(sid)
    \/ ModalGradeSave("1", "")
    \/ ShowCreateModal
    \/ ModalCreateSave("c1", "1", "0.5")
    \/ RenderRoster("c1", "d1")
    \/ \E sid \in Range(roster.students) \cap {"s1"} : Toggle(sid, "present")
    \/ SaveAttendance
    \/ ShowAnnouncementModal
    \/ ModalPublish("title", "content")
    \/ \E u \in {x \in Range(usersData) : x.id \in {"t1", "s1"}} : Reload(u)
    \/ ResetAllData

Spec == Init /\ [][Next]_vars

-----------------------------------------------------------------------------
(* getLetterGrade on its own, both copies, over a range of percentages *)

Thresholds == <<97, 93, 90, 87, 83, 80, 77, 73, 70, 67, 63, 60>>

\* percentages: every tenth from -5.0 to 105.0, the thousandths on both
\* sides of each threshold, and NaN (0/0)
PctInputs ==
    {[num |-> n, den |-> 10] : n \in -50..1050}
    \cup {[num |-> Thresholds[i] * 1000 + d, den |-> 1000] :
             i \in 1..Len(Thresholds), d \in {-1, 1}}
    \cup {[num |-> 0, den |-> 0]}

\* the page at rest with an input still to be handled held in last
AtRest ==
    /\ localStorage = [n \in Names |-> Absent]
    /\ baseline = BaselineOk
    /\ user = usersData[1]
    /\ assignmentsData = BaseAssignments
    /\ submissionsData = BaseSubmissions
    /\ attendanceData = BaseAttendance
    /\ announcementsData = <<>>
    /\ modal = NoModal
    /\ roster = NoRoster
    /\ toast = NoToast
    /\ nextId = 0
    /\ saved = NeverSaved

InitLetter ==
    /\ AtRest
    /\ gradebook = SampleGradebook
    /\ importer = NoRun
    /\ browser = FreshBrowser
    /\ \E pct \in PctInputs : last = [op |-> "input", pct |-> pct]

\* both modules band the same percentage
LetterGrade ==
    /\ last.op = "input"
    /\ last' = [op |-> "letter", pct |-> last.pct,
                assignments |-> getLetterGrade(last.pct),
                gradebook |-> gradebook_getLetterGrade(last.pct)]
    /\ UNCHANGED <<gradebook, importer>>
    /\ OnlyLast

NextLetter == LetterGrade

SpecLetter == InitLetter /\ [][NextLetter]_vars

-----------------------------------------------------------------------------
(* The gradebook views over small grade tables of student s1 in class c1 *)

MaxGrades == 2          \* grade records in the table

\* one assignment of class c1 with the given weight
GbAssignment(n, w) ==
    [id |-> <<"a", n>>, class_id |-> "c1", weight |-> w, status |-> "published"]

\* the grade records a table is drawn from: 60, 80 or 100 points out of 100
\* with weight 0, 0.5 or 1, for either assignment
GradeEntries ==
    [student_id : {"s1"}, class_id : {"c1"}, assignment_id : {<<"a", 1>>, <<"a", 2>>},
     points : {60, 80, 100}, max_points : {100}, weight : {0, 50, 100}]

GradeTables == UNION {[1..n -> GradeEntries] : n \in 0..MaxGrades}

InitGradebook ==
    /\ AtRest
    /\ last = Idle
    /\ importer = NoRun
    /\ browser = FreshBrowser
    /\ \E grades \in GradeTables, w1 \in {0, 50}, w2 \in {0, 50} :
          gradebook = [SampleGradebook EXCEPT
                          !.gradesData = grades,
                          !.assignmentsData = <<GbAssignment(1, w1), GbAssignment(2, w2)>>]

NextGradebook ==
    \/ RenderClassGradebook("c1")
    \/ \E u \in Range(gradebook.usersData) : RenderStudentGrades(u)

SpecGradebook == InitGradebook /\ [][NextGradebook]_vars

\* points out of 10000 within 0.06 of a percent of each threshold of the
\* letter bands, the ties of the rounding (x.x5) left out
RoundingPoints ==
    UNION {{100 * Thresholds[i] + d : d \in (-6..4) \ {-5}} : i \in 1..Len(Thresholds)}

\* a class gradebook of one or two grades of student s1, the first one near
\* a threshold
InitRounding ==
    /\ AtRest
    /\ last = Idle
    /\ importer = NoRun
    /\ browser = FreshBrowser
    /\ \E p \in RoundingPoints, w \in {50, 100}, n \in 1..2 :
          gradebook = [SampleGradebook EXCEPT
             !.gradesData = SubSeq(
                 << [student_id |-> "s1", class_id |-> "c1", assignment_id |-> <<"a", 1>>,
                     points |-> p, max_points |-> 10000, weight |-> w],
                    [student_id |-> "s1", class_id |-> "c1", assignment_id |-> <<"a", 2>>,
                     points |-> p, max_points |-> 10000, weight |-> 50] >>, 1, n),
             !.assignmentsData = <<GbAssignment(1, 50), GbAssignment(2, 50)>>]

NextRounding == RenderClassGradebook("c1")

SpecRounding == InitRounding /\ [][NextRounding]_vars

-----------------------------------------------------------------------------
(* The roster resolvers over small enrollment tables; users s1, s2 and       *)
(* classes c1, c2 exist, student s9 and class c9 do not.                      *)

MaxEnrollments == 2     \* enrollment records in the table

EnrollmentEntries ==
    [student_id : {"s1", "s2", "s9"}, class_id : {"c1", "c2", "c9"},
     status : {"active", "withdrawn", "completed"}]

EnrollmentTables == UNION {[1..n -> EnrollmentEntries] : n \in 0..MaxEnrollments}

InitRoster ==
    /\ AtRest
    /\ last = Idle
    /\ importer = NoRun
    /\ browser = FreshBrowser
    /\ \E enrollments \in EnrollmentTables :
          gradebook = [SampleGradebook EXCEPT !.enrollmentsData = enrollments]

Ids(seq) == {seq[i].id : i \in 1..Len(seq)}

\* the roster of a class as each module resolves it
ResolveRoster(classId) ==
    /\ last' = [op |-> "roster", classId |-> classId,
                gradebook |-> Ids(gradebook_getClassStudents(gradebook, classId)),
                attendance |-> Ids(attendance_getClassStudents(
                                  gradebook.enrollmentsData, gradebook.usersData, classId)),
                classPage |-> Ids(classPageRoster(gradebook, classId))]
    /\ UNCHANGED <<gradebook, importer>>
    /\ OnlyLast

\* the active classes of a student as the dashboard and the grades view
\* resolve them
ResolveClasses(u) ==
    /\ u.role = "student"
    /\ last' = [op |-> "classes", student_id |-> u.id,
                stats |-> Range(statsClassIds(gradebook, u)),
                grades |-> Range(studentGradesClassIds(gradebook, u))]
    /\ UNCHANGED <<gradebook, importer>>
    /\ OnlyLast

NextRoster ==
    \/ \E c \in {"c1", "c2", "c9"} : ResolveRoster(c)
    \/ \E u \in Range(gradebook.usersData) : ResolveClasses(u)

SpecRoster == InitRoster /\ [][NextRoster]_vars

-----------------------------------------------------------------------------
(* The CSV codec: records are exported and the text is parsed back *)

MaxCsvLen == 2          \* tokens in a value

CsvAlphabet == {"x", COMMA, QUOTE, LF, SP}

CsvValues == UNION {[1..n -> CsvAlphabet] : n \in 0..MaxCsvLen}

\* one or two records of one column, or one record of two columns with
\* values of at most one token
CsvInputs ==
    {[cols |-> <<"k">>, data |-> d] :
        d \in UNION {[1..n -> [k : CsvValues]] : n \in 0..2}}
    \cup {[cols |-> <<"k", "m">>, data |-> <<r>>] :
             r \in [k : {v \in CsvValues : Len(v) <= 1},
                    m : {v \in CsvValues : Len(v) <= 1}]}

InitCsv ==
    /\ AtRest
    /\ gradebook = SampleGradebook
    /\ importer = NoRun
    /\ browser = FreshBrowser
    /\ \E in \in CsvInputs : last = [op |-> "input", cols |-> in.cols, data |-> in.data]

\* exportCSV(data, filename, columns)
ExportCSV ==
    /\ last.op = "input"
    /\ LET out == exportCSV(last.data, last.cols)
       IN  last' = [op |-> "exported", cols |-> last.cols, data |-> last.data,
                    download |-> out.download, csv |-> out.csv]
    /\ UNCHANGED <<gradebook, importer>>
    /\ OnlyLast

\* parseCSV of the downloaded text
ParseCSV ==
    /\ last.op = "exported"
    /\ last.download
    /\ last' = [op |-> "parsed", cols |-> last.cols, data |-> last.data,
                rows |-> parseCSV(last.csv)]
    /\ UNCHANGED <<gradebook, importer>>
    /\ OnlyLast

NextCsv == ExportCSV \/ ParseCSV

SpecCsv == InitCsv /\ [][NextCsv]_vars

-----------------------------------------------------------------------------
(* The import command over small CSV files *)

MaxRows == 2            \* data lines in the file

\* the cells a line is made of
Cells == {<<>>, <<"Ann">>, <<"2">>}

\* entity and header line of the file
ImportCases ==
    {[entity |-> "users", header |-> << <<"First Name">>, <<"last_name">> >>],
     [entity |-> "users", header |-> << <<"ID">>, <<"first_name">> >>],
     [entity |-> "users", header |-> << <<"last_name">>, <<"year_level">> >>],
     [entity |-> "users", header |-> << <<"email">>, <<"id">> >>],
     [entity |-> "assignments", header |-> << <<"points">>, <<"weight">> >>],
     [entity |-> "grades", header |-> << <<"points">>, <<"grade_id">> >>],
     [entity |-> "students", header |-> << <<"id">>, <<"name">> >>],
     [entity |-> "constructor", header |-> << <<"id">>, <<"name">> >>]}

\* a line of two cells, or of one cell only
Lines == [1..2 -> Cells] \cup [1..1 -> Cells]

\* the text of a file: its lines joined by newlines, the cells by commas
csvText(lines) == join([i \in 1..Len(lines) |-> join(lines[i], COMMA)], LF)

InitImport ==
    /\ AtRest
    /\ last = Idle
    /\ gradebook = SampleGradebook
    /\ browser = FreshBrowser
    /\ \/ \E c \in ImportCases :
          \E lines \in UNION {[1..n -> Lines] : n \in 0..MaxRows} :
             importer = [phase |-> "start", args |-> <<"in.csv", c.entity>>,
                         exists |-> TRUE, text |-> csvText(<<c.header>> \o lines)]
       \/ \E entity \in {"users", "students"}, exists \in BOOLEAN, n \in 1..3,
             text \in {<<>>, <<LF, LF>>, csvText(<< << <<"id">> >>, << <<"Ann">> >> >>)} :
          LET args == SubSeq(<<"in.csv", entity, "out.json">>, 1, n)
          IN importer = [phase |-> "start", args |-> args, exists |-> exists,
                         text |-> IF exists THEN text ELSE <<>>]

NextImport == RunImport

SpecImport == InitImport /\ [][NextImport]_vars

-----------------------------------------------------------------------------
(* Claims about the record store (checked under SpecStore) *)

\* C5: a load that follows a save of the same name (no save or reset of it
\* in between) returns exactly the saved records, the empty array included,
\* whatever the baseline holds; a load with no overlay returns the baseline
\* dataset (the baseline being readable).
C5_LoadReturnsSaved ==
    last.op = "load" =>
        /\ saved[last.name].set =>
              ~last.rejected /\ last.val = saved[last.name].data
        /\ (last.cached = Absent /\ baseline[last.name].status = "ok") =>
              ~last.rejected /\ last.val = baseline[last.name].data

\* C5 witness: an empty array was saved over a non-empty, readable baseline
\* and the load returned the empty array.
C5_Witness ==
    /\ last.op = "load"
    /\ saved[last.name].set
    /\ saved[last.name].data = <<>>
    /\ baseline[last.name].status = "ok"
    /\ Len(baseline[last.name].data) > 0
    /\ last.val = <<>>

\* C6 (as claimed): with no overlay, a load over an unreadable (fetch fails
\* or non-OK status) or malformed baseline returns an empty sequence and
\* does not reject.
C6_UnreadableBaselineGivesEmpty ==
    (/\ last.op = "load"
     /\ last.cached = Absent
     /\ baseline[last.name].status \in {"http_error", "network_error", "bad_json"})
    => (~last.rejected /\ last.val = <<>>)

\* C7 (as claimed): a load over a malformed overlay returns an empty
\* sequence and does not reject.
C7_MalformedOverlayGivesEmpty ==
    (last.op = "load" /\ last.cached = Malformed)
    => (~last.rejected /\ last.val = <<>>)

\* C7 (amended): a load over a malformed overlay removes the overlay entry
\* and has exactly the outcome of a load with no overlay; over a readable
\* baseline that is the baseline dataset, not an empty sequence.
C7_MalformedOverlayFallsBack ==
    (last.op = "load" /\ last.cached = Malformed) =>
        LET n == last.name
            bare == loadData([localStorage EXCEPT ![n] = Absent], n)
        IN  /\ localStorage[n] = Absent
            /\ last.rejected = bare.rejected
            /\ last.val = bare.val
            /\ baseline[n].status = "ok" =>
                  ~last.rejected /\ last.val = baseline[n].data

\* C7 witness: a malformed overlay over a readable, non-empty baseline was
\* loaded and the baseline came back.
C7_Witness ==
    /\ last.op = "load"
    /\ last.cached = Malformed
    /\ baseline[last.name].status = "ok"
    /\ last.val = baseline[last.name].data
    /\ Len(last.val) > 0
    /\ localStorage[last.name] = Absent

-----------------------------------------------------------------------------
(* Claims about submitting and grading (checked under SpecAssignments) *)

\* what load('grades') / load('submissions') returns in the current state
LoadedGrades == loadData(localStorage, "grades").val
LoadedSubmissions == loadData(localStorage, "submissions").val

\* C2 (as claimed): after a successful grading action load('grades') returns
\* every record it returned before the action, unchanged and in place, plus
\* exactly one new record at the end.
C2_GradeAppendsToLoadedGrades ==
    [][(last'.op = "grade" /\ last'.ok) =>
          LET before == LoadedGrades
              after == LoadedGrades'
          IN  /\ Len(after) = Len(before) + 1
              /\ SubSeq(after, 1, Len(before)) = before]_vars

\* the texts of the points field that spell a number
Numerals == {"-1", "0", "1", "2", "3"}

\* the point value typed is a number within [0, max_points]
PointValueInRange(text, max_points) ==
    /\ text \in Numerals
    /\ NumberOf(text).n >= 0
    /\ NumberOf(text).n <= max_points

\* a grading attempt was rejected: a warning is shown and nothing is mutated
GradeRejected ==
    /\ ~last'.ok
    /\ toast'.type = "warning"
    /\ UNCHANGED <<submissionsData, localStorage>>

\* C3 (as claimed): a grading attempt whose point value is not a number in
\* [0, max_points] is rejected with a message and mutates neither the
\* submissions nor the grades nor the overlays.
C3_BadPointsRejected ==
    [][(last'.op = "grade" /\ ~PointValueInRange(last'.text, last'.max_points))
          => GradeRejected]_vars

\* C3, the part the code does keep: when Number(value) is NaN or outside
\* [0, max_points] the attempt is rejected and nothing is mutated.
Aux_C3_ConvertedOutOfRangeRejected ==
    [][(/\ last'.op = "grade"
        /\ \/ NumberOf(last'.text).nan
           \/ NumberOf(last'.text).n < 0
           \/ NumberOf(last'.text).n > last'.max_points)
          => GradeRejected]_vars

\* C4 (as claimed): a successful grading with points p moves exactly the
\* targeted submission to graded with grade p, and the grade record created
\* carries the submission's student, the assignment's id, class, max_points
\* and weight, points p and the letter of p / max_points * 100.
C4_GradeRecordFields ==
    [][(last'.op = "grade" /\ last'.ok) =>
          LET p == last'.points
              idx == findIndex(submissionsData, {x \in Range(submissionsData) : x.id = last'.subId})
              sub == submissionsData[idx]
              a == CHOOSE x \in Range(assignmentsData) : x.id = sub.assignment_id
              rec == LoadedGrades'[Len(LoadedGrades')]
          IN  /\ idx > 0
              /\ p >= 0 /\ p <= a.max_points
              /\ Len(submissionsData') = Len(submissionsData)
              /\ \A i \in 1..Len(submissionsData) :
                    i # idx => submissionsData'[i] = submissionsData[i]
              /\ submissionsData'[idx].id = sub.id
              /\ submissionsData'[idx].status = "graded"
              /\ submissionsData'[idx].grade = p
              /\ rec.student_id = sub.student_id
              /\ rec.assignment_id = a.id
              /\ rec.class_id = a.class_id
              /\ rec.max_points = a.max_points
              /\ rec.weight = a.weight
              /\ rec.points = p
              /\ rec.letter_grade = getLetterGrade(Pct(p, a.max_points))]_vars

OnePerPair(table) ==
    \A i, j \in 1..Len(table) :
        (/\ table[i].assignment_id = table[j].assignment_id
         /\ table[i].student_id = table[j].student_id) => i = j

\* C9: the submissions table, in memory and as persisted, holds at most one
\* submission per (assignment_id, student_id).
C9_OneSubmissionPerPair ==
    OnePerPair(submissionsData) /\ OnePerPair(LoadedSubmissions)

\* C9 witness: a student has just submitted an assignment that another
\* student had submitted too, and the submitter's card has lost its button.
C9_Witness ==
    /\ last.op = "submit" /\ last.ok
    /\ user.role = "student"
    /\ \E i, j \in 1..Len(submissionsData) :
          /\ submissionsData[i].assignment_id = submissionsData[j].assignment_id
          /\ submissionsData[i].student_id # submissionsData[j].student_id
          /\ submissionsData[j].id = last.id
          /\ submissionsData[j].assignment_id \notin submitButtons
          /\ submissionsData = LoadedSubmissions

-----------------------------------------------------------------------------
(* Claims about attendance (checked under SpecAttendance) *)

LoadedAttendance == loadData(localStorage, "attendance").val

SameTriple(r, q) ==
    r.class_id = q.class_id /\ r.student_id = q.student_id /\ r.date = q.date

UniqueTriples(table) ==
    \A i, j \in 1..Len(table) : SameTriple(table[i], table[j]) => i = j

\* the roster student sid has a toggle pressed
Selected(sid) == sid \in Range(roster.students) /\ roster.pressed[sid] # ""

\* the record is one the save is about: of the roster's class and date, for
\* a student with a selection
InBatch(r) ==
    r.class_id = roster.classId /\ r.date = roster.date /\ Selected(r.student_id)

\* C1: the attendance table, in memory and as persisted, keeps at most one
\* record per (class_id, student_id, date); a save over an existing record of
\* a triple leaves exactly one record for it, with the status selected and
\* the id the record had.
C1_AttendanceUpsert ==
    /\ [](UniqueTriples(attendanceData) /\ UniqueTriples(LoadedAttendance))
    /\ [][last'.op = "saveAttendance" =>
            \A i \in 1..Len(attendanceData) :
                InBatch(attendanceData[i]) =>
                    LET r == attendanceData[i]
                        same == {j \in 1..Len(attendanceData') :
                                    SameTriple(attendanceData'[j], r)}
                    IN  /\ same = {i}
                        /\ attendanceData'[i].status = roster.pressed[r.student_id]
                        /\ attendanceData'[i].id = r.id
                        /\ LoadedAttendance'[i] = attendanceData'[i]]_vars

\* C1 witness: a save has just overwritten a record with another status.
C1_Witness ==
    /\ last.op = "saveAttendance"
    /\ last.restated > 0
    /\ \E i \in 1..Len(attendanceData) :
          /\ InBatch(attendanceData[i])
          /\ attendanceData[i].id[2] > 0
    /\ LoadedAttendance = attendanceData

\* C10: a save changes only the records of the roster's class and date whose
\* student has a selection: every other record stays as it is, where it is,
\* and every record added is of that class and date, for a selected student.
C10_SaveTouchesOnlyBatch ==
    [][last'.op = "saveAttendance" =>
          /\ Len(attendanceData') >= Len(attendanceData)
          /\ \A i \in 1..Len(attendanceData) :
                ~InBatch(attendanceData[i]) => attendanceData'[i] = attendanceData[i]
          /\ \A j \in (Len(attendanceData) + 1)..Len(attendanceData') :
                InBatch(attendanceData'[j])
          /\ LoadedAttendance' = attendanceData']_vars

\* C10 witness: a save has run for a roster in which one student has a
\* selection and another has none and no record; the table also holds a
\* record of another class and date.
C10_Witness ==
    /\ last.op = "saveAttendance"
    /\ last.count > 0
    /\ \E sid \in Range(roster.students) :
          /\ ~Selected(sid)
          /\ \A r \in Range(attendanceData) :
                ~(r.class_id = roster.classId /\ r.date = roster.date
                  /\ r.student_id = sid)
    /\ \E r \in Range(attendanceData) :
          r.class_id # roster.classId /\ r.date # roster.date
    /\ \E r \in Range(attendanceData) : InBatch(r)

-----------------------------------------------------------------------------
(* Claims about the overlay and the baseline (checked under Spec) *)

\* the entity names the handler that has just run saves
SavedBy(op) ==
    CASE op = "submit" -> {"submissions"}
      [] op = "grade" -> {"submissions", "grades"}
      [] op = "create" -> {"assignments"}
      [] op = "saveAttendance" -> {"attendance"}
      [] op = "publish" -> {"announcements"}
      [] OTHER -> {}

\* C8: no step changes the baseline, and a step of a handler that saves
\* changes the overlay entries of the names it saves and of no other name
\* (only a reset or a page load touches other entries).
C8_WritesOnlyOverlayOfName ==
    [][/\ baseline' = baseline
       /\ last'.op \notin {"reset", "reload"} =>
             \A n \in Names :
                localStorage'[n] # localStorage[n] => n \in SavedBy(last'.op)]_vars

\* C8 witness: a handler has just saved one name while the overlay of another
\* name, saved earlier, is still there, and the baseline is the sample data.
C8_Witness ==
    /\ SavedBy(last.op) # {}
    /\ \A n \in SavedBy(last.op) : localStorage[n].kind = "json"
    /\ \E n \in Names \ SavedBy(last.op) :
          localStorage[n].kind = "json" /\ localStorage[n].val # BaseData[n]
    /\ baseline = BaselineOk

-----------------------------------------------------------------------------
(* Claims about letter grades (checked under SpecLetter) *)

Letters == <<"A+", "A", "A-", "B+", "B", "B-", "C+", "C", "C-", "D+", "D", "D-">>

\* p >= t and p < t for a percentage p = num/den that is a number
PctGE(p, t) == p.num >= t * p.den
PctLT(p, t) == p.num < t * p.den

\* C11: the letter is that of the first threshold, top-down, that the
\* percentage reaches, F when it reaches none: below 60 is F, 97 and above is
\* A+, 93 is A, [90, 93) is A-; both copies return the same letter.
C11_LetterBands ==
    last.op = "letter" =>
        LET p == last.pct
            reached == {i \in 1..Len(Thresholds) : p.den > 0 /\ PctGE(p, Thresholds[i])}
            first == CHOOSE i \in reached : \A j \in reached : i <= j
        IN  /\ last.gradebook = last.assignments
            /\ last.assignments = IF reached = {} THEN "F" ELSE Letters[first]
            /\ p.den > 0 =>
                  /\ PctLT(p, 60) => last.assignments = "F"
                  /\ PctGE(p, 97) => last.assignments = "A+"
                  /\ (PctGE(p, 93) /\ PctLT(p, 97)) => last.assignments = "A"
                  /\ (PctGE(p, 90) /\ PctLT(p, 93)) => last.assignments = "A-"

\* C11 witness: 93 exactly was banded A by both copies.
C11_Witness ==
    /\ last.op = "letter"
    /\ last.pct = [num |-> 930, den |-> 10]
    /\ last.assignments = "A"
    /\ last.gradebook = "A"

-----------------------------------------------------------------------------
(* Claims about the weighted average (checked under SpecGradebook) *)

\* the grade entries of a student in a class
EntriesOf(sid, classId) ==
    SelectSeq(gradebook.gradesData,
              LAMBDA g : g.student_id = sid /\ g.class_id = classId)

RECURSIVE SumWeight(_, _)
SumWeight(entries, i) ==
    IF i = 0 THEN 0 ELSE SumWeight(entries, i - 1) + entries[i].weight

\* sum over the entries of points * weight * 100 / max_points, as the
\* numerator over the common denominator 100 (every max_points is 100)
RECURSIVE SumScore(_, _)
SumScore(entries, i) ==
    IF i = 0 THEN 0
    ELSE SumScore(entries, i - 1) + entries[i].points * entries[i].weight

\* the table holds at most one grade record per (student, assignment)
OneGradePerPair ==
    \A i, j \in 1..Len(gradebook.gradesData) :
        (/\ gradebook.gradesData[i].student_id = gradebook.gradesData[j].student_id
         /\ gradebook.gradesData[i].assignment_id = gradebook.gradesData[j].assignment_id)
        => i = j

\* the row the class view has rendered for student sid
RowOf(sid) ==
    LET i == CHOOSE i \in 1..Len(last.rows) : last.rows[i].student_id = sid
    IN  last.rows[i].row

\* C12 (as claimed): when the weights of a student's grade entries in the
\* class sum to 0 (no entries included), both views show the placeholder for
\* the average, and the class view no letter.
C12_ZeroWeightIsPlaceholder ==
    /\ last.op = "classGradebook" =>
          \A i \in 1..Len(last.rows) :
             LET entries == EntriesOf(last.rows[i].student_id, last.classId)
             IN  SumWeight(entries, Len(entries)) = 0 =>
                    ~last.rows[i].row.shown /\ last.rows[i].row.letter = Dash
    /\ last.op = "studentGrades" =>
          \A i \in 1..Len(last.classes) :
             LET entries == EntriesOf(last.student_id, last.classes[i].class_id)
             IN  SumWeight(entries, Len(entries)) = 0 => ~last.classes[i].row.shown

\* the percentage 100 * sum(points/max * weight) / sum(weight) of the
\* entries, to one decimal, in tenths
Expected(entries) ==
    LET w == SumWeight(entries, Len(entries))
        sc == SumScore(entries, Len(entries))
    IN  (2 * 10 * sc + w) \div (2 * w)

\* C13 (as claimed): over a table with one grade per (student, assignment),
\* for entries of positive total weight both views show the percentage
\* 100 * sum(points_i / max_points_i * weight_i) / sum(weight_i).
C13_WeightedPercentage ==
    OneGradePerPair =>
    /\ last.op = "classGradebook" =>
          \A i \in 1..Len(last.rows) :
             LET entries == EntriesOf(last.rows[i].student_id, last.classId)
             IN  SumWeight(entries, Len(entries)) > 0 =>
                    /\ last.rows[i].row.shown
                    /\ last.rows[i].row.avg = Expected(entries)
    /\ last.op = "studentGrades" =>
          \A i \in 1..Len(last.classes) :
             LET entries == EntriesOf(last.student_id, last.classes[i].class_id)
             IN  SumWeight(entries, Len(entries)) > 0 =>
                    /\ last.classes[i].row.shown
                    /\ last.classes[i].row.avg = Expected(entries)

-----------------------------------------------------------------------------
(* Claims about the roster resolvers (checked under SpecRoster) *)

\* the table holds an enrollment of the student in the class with the status
Enrolled(sid, classId, status) ==
    \E e \in Range(gradebook.enrollmentsData) :
        e.student_id = sid /\ e.class_id = classId /\ e.status = status

AllStudentIds == {"s1", "s2", "s9"}
AllClassIds == {"c1", "c2", "c9"}

C15_OutputsExist ==
    /\ last.op = "roster" =>
          last.gradebook \cup last.attendance \cup last.classPage
             \subseteq Ids(gradebook.usersData)
    /\ last.op = "classes" =>
          last.stats \cup last.grades \subseteq Ids(gradebook.classesData)

-----------------------------------------------------------------------------
(* Claims about the CSV codec (checked under SpecCsv) *)

\* C16 (as claimed): the text exported for (records, columns) parses to the
\* header row equal to the columns, followed by one row per record, in
\* order, each field equal to the record's value of the column.
C16_CsvRoundTrip ==
    last.op = "parsed" =>
        /\ Len(last.rows) = Len(last.data) + 1
        /\ last.rows[1] = [j \in 1..Len(last.cols) |-> <<last.cols[j]>>]
        /\ \A i \in 1..Len(last.data) :
              last.rows[i + 1] = [j \in 1..Len(last.cols) |-> last.data[i][last.cols[j]]]

\* the values that neither start nor end with white space and are not empty
Plain(v) == v # <<>> /\ v[1] \notin Whitespace /\ v[Len(v)] \notin Whitespace

\* C16, the part the code keeps: records whose values are not empty and
\* have no leading or trailing white space come back field for field,
\* commas, quotes and inner newlines included.
Aux_C16_PlainValuesRoundTrip ==
    (/\ last.op = "parsed"
     /\ \A i \in 1..Len(last.data) : \A j \in 1..Len(last.cols) :
           Plain(last.data[i][last.cols[j]]))
    => /\ Len(last.rows) = Len(last.data) + 1
       /\ last.rows[1] = [j \in 1..Len(last.cols) |-> <<last.cols[j]>>]
       /\ \A i \in 1..Len(last.data) :
             last.rows[i + 1] = [j \in 1..Len(last.cols) |-> last.data[i][last.cols[j]]]

-----------------------------------------------------------------------------
(* Claims about the import command (checked under SpecImport) *)

\* a run that has written its output
Imported == importer.phase = "done" /\ importer.output.written

\* the rows the file parses to, its header line as property names, and the
\* canonical field of each column
FileRows == parseCSV(importer.text)
HeaderKeys == [j \in 1..Len(FileRows[1]) |-> normalizeHeader(FileRows[1][j])]
FieldOf(j) == mappedOf(fieldMapOf(importer.args[2]), HeaderKeys[j])

\* the cell of data row i in column j, empty when the row is too short
CellAt(i, j) == IF j <= Len(FileRows[i + 1]) THEN FileRows[i + 1][j] ELSE <<>>

\* the cell of data row i under the last column of the canonical field,
\* empty when there is no such column
CellOfField(i, field) ==
    LET cols == {j \in 1..Len(HeaderKeys) : FieldOf(j) = field}
    IN  IF cols = {} THEN <<>>
        ELSE CellAt(i, CHOOSE j \in cols : \A k \in cols : k <= j)

\* C17: in a users import of a file with a first_name or last_name column
\* and no column of display_name, every record has display_name equal to
\* the first and last name joined by one space, to the one that is not
\* empty when the other is, and has no display_name when both are empty.
C17_DisplayNameFromNames ==
    (/\ Imported
     /\ importer.args[2] = "users"
     /\ \E j \in 1..Len(HeaderKeys) : FieldOf(j) \in {"_first_name", "_last_name"}
     /\ \A j \in 1..Len(HeaderKeys) : FieldOf(j) # "display_name")
    => /\ Len(importer.output.records) = Len(FileRows) - 1
       /\ \A i \in 1..Len(importer.output.records) :
             LET first == CellOfField(i, "_first_name")
                 last_ == CellOfField(i, "_last_name")
                 record == importer.output.records[i]
             IN  IF first = <<>> /\ last_ = <<>>
                 THEN "display_name" \notin DOMAIN record
                 ELSE /\ "display_name" \in DOMAIN record
                      /\ record["display_name"] =
                            Str(IF first = <<>> THEN last_
                                ELSE IF last_ = <<>> THEN first
                                ELSE first \o <<SP>> \o last_)

\* C17 witness: a users file with both name columns; one record has both
\* names joined, another has the last name alone.
C17_Witness ==
    /\ Imported
    /\ importer.args[2] = "users"
    /\ \E i, k \in 1..Len(importer.output.records) :
          /\ "display_name" \in DOMAIN importer.output.records[i]
          /\ "display_name" \in DOMAIN importer.output.records[k]
          /\ importer.output.records[i]["display_name"] = Str(<<"Ann", SP, "2">>)
          /\ CellOfField(k, "_first_name") = <<>>
          /\ importer.output.records[k]["display_name"] = Str(<<"Ann">>)

\* the numeric value of a cell: that of a numeral, 0 otherwise
CellNumber(cell) == IF cell = <<"2">> THEN 2 ELSE 0

\* C18: every cell under a column of max_points, points, weight or
\* year_level is stored as a number: the value of the cell when it is a
\* numeral, 0 when it is empty, missing or not numeric.
C18_NumericCoercion ==
    Imported =>
       \A i \in 1..Len(importer.output.records) :
          \A j \in 1..Len(HeaderKeys) :
             FieldOf(j) \in NumericFields =>
                /\ FieldOf(j) \in DOMAIN importer.output.records[i]
                /\ importer.output.records[i][FieldOf(j)] = Num(CellNumber(CellAt(i, j)))

\* C18 witness: an assignments file one line of which has a numeral under
\* points and a word under weight, another a missing weight cell.
C18_Witness ==
    /\ Imported
    /\ importer.args[2] = "assignments"
    /\ \E i, k \in 1..Len(importer.output.records) :
          /\ CellAt(i, 1) = <<"2">> /\ CellAt(i, 2) = <<"Ann">>
          /\ importer.output.records[i]["max_points"] = Num(2)
          /\ importer.output.records[i]["weight"] = Num(0)
          /\ Len(FileRows[k + 1]) = 1
          /\ importer.output.records[k]["weight"] = Num(0)

\* C19: a record whose mapped id is empty or missing gets the id
\* <first letter of the entity>-imported-<i>, i its 1-based position among
\* the non-blank data rows; a record with a mapped id keeps it; a second
\* conversion of the same rows gives the same ids.
C19_GeneratedIds ==
    Imported =>
       /\ Len(importer.output.records) = Len(FileRows) - 1
       /\ \A i \in 1..Len(importer.output.records) :
             importer.output.records[i]["id"] =
                IF CellOfField(i, "id") # <<>> THEN Str(CellOfField(i, "id"))
                ELSE Str(<<charAt0(importer.args[2]), "-imported-", ToString(i)>>)
       /\ \A i \in 1..Len(importer.output.records) :
             convertCSV(FileRows, importer.args[2]).records[i]["id"]
                = importer.output.records[i]["id"]

\* C19 witness: a users file with an id column; the first record keeps its
\* id, the second has none and gets u-imported-2.
C19_Witness ==
    /\ Imported
    /\ importer.args[2] = "users"
    /\ Len(importer.output.records) = 2
    /\ CellOfField(1, "id") = <<"Ann">>
    /\ importer.output.records[1]["id"] = Str(<<"Ann">>)
    /\ importer.output.records[2]["id"] = Str(<<"u", "-imported-", "2">>)

\* C20 (as claimed): a run given an entity that is not one of the nine
\* names, or an input path that does not exist, ends with a non-zero exit
\* status and an error message and writes no output file.
C20_BadRunWritesNothing ==
    (/\ importer.phase = "done"
     /\ Len(importer.args) >= 2
     /\ importer.args[2] \notin DOMAIN FIELD_MAPS \/ ~importer.exists)
    => /\ importer.exit # 0
       /\ importer.error
       /\ ~importer.output.written

\* C21 (as claimed): a run given fewer than 2 arguments ends with a
\* non-zero exit status and writes no file.
C21_TooFewArgsExitsNonZero ==
    (importer.phase = "done" /\ Len(importer.args) < 2)
    => /\ importer.exit # 0
       /\ ~importer.output.written

-----------------------------------------------------------------------------
(* Claims about interrupted gradings (checked under SpecInterrupted) *)

\* the submission the grade dialog is about
GradedSub == CHOOSE s \in Range(submissionsData) : s.id = modal.subId

\* what a load of the name would return from the store
Persisted(store, name) == Range(loadData(store, name).val)

\* the step persists the dialog's submission as graded and no grade record
SubmissionOnly ==
    /\ \E s \in Persisted(localStorage', "submissions") :
          s.id = modal.subId /\ s.status = "graded"
    /\ ~\E s \in Persisted(localStorage, "submissions") :
          s.id = modal.subId /\ s.status = "graded"
    /\ localStorage'["grades"] = localStorage["grades"]

\* the step persists a grade record of the dialog's submission while the
\* submission is not persisted as graded
GradeRecordOnly ==
    /\ \E g \in Persisted(localStorage', "grades") \ Persisted(localStorage, "grades") :
          /\ g.assignment_id = GradedSub.assignment_id
          /\ g.student_id = GradedSub.student_id
    /\ ~\E s \in Persisted(localStorage', "submissions") :
          s.id = modal.subId /\ s.status = "graded"

\* the step is a grading cut short between its two writes
Interrupted == modal.kind = "grade" /\ last'.op = "grade_interrupted"

\* C22 (as claimed): from every state in which the grade dialog is open,
\* a grading cut short can leave either partial outcome: the submission
\* persisted as graded with no grade record, and the grade record
\* persisted with the submission not persisted as graded.
C22_BothPartialOutcomes ==
    (modal.kind = "grade" /\ modal.visible /\ nextId < MaxId)
    => /\ ENABLED (NextInterrupted /\ Interrupted /\ SubmissionOnly)
       /\ ENABLED (NextInterrupted /\ GradeRecordOnly)

\* C22 (amended): a grading cut short between its two writes persists
\* exactly one of them, always the submission as graded with no grade
\* record; no step persists the grade record while the submission is not
\* persisted as graded.
C22_SubmissionWrittenFirst ==
    [][/\ Interrupted => SubmissionOnly
       /\ modal.kind = "grade" => ~GradeRecordOnly]_vars

\* C22 witness: a grading was cut short; the store holds the submission as
\* graded and no grade record of it.
C22_Witness ==
    /\ last.op = "grade_interrupted"
    /\ \E s \in Persisted(localStorage, "submissions") :
          /\ s.id = last.subId /\ s.status = "graded"
          /\ ~\E g \in Persisted(localStorage, "grades") :
                g.assignment_id = s.assignment_id /\ g.student_id = s.student_id

-----------------------------------------------------------------------------
(* Claims about the create-assignment dialog (checked under SpecCreate) *)

\* C23 (as claimed): every assignment record the create action produces
\* has max_points > 0, weight within [0, 1] and a status of draft,
\* published or closed; an input it does not accept appends nothing to the
\* assignments array and saves nothing.
C23_CreatedAssignmentInDomain ==
    [][last'.op = "create" =>
          IF last'.ok
          THEN /\ last'.assignment.max_points > 0
               /\ last'.assignment.weight \in 0..100
               /\ last'.assignment.status \in {"draft", "published", "closed"}
               /\ assignmentsData' = Append(assignmentsData, last'.assignment)
          ELSE UNCHANGED <<assignmentsData, localStorage>>]_vars

-----------------------------------------------------------------------------
(* Claims about the reset (checked under SpecReset) *)

-----------------------------------------------------------------------------
(* Claims about repeated gradings (checked under Spec) *)

-----------------------------------------------------------------------------
(* Claims about the two gradebook views (checked under SpecGradebook) *)

\* the student has exactly one grade record for every non-draft assignment
\* of the class, and no other grade record in the class
OneRecordPerAssignment(sid, classId) ==
    LET entries == EntriesOf(sid, classId)
        as == {a \in Range(gradebook.assignmentsData) :
                  a.class_id = classId /\ a.status # "draft"}
    IN  /\ \A a \in as : \E i \in 1..Len(entries) :
              /\ entries[i].assignment_id = a.id
              /\ \A j \in 1..Len(entries) : entries[j].assignment_id = a.id => j = i
        /\ \A i \in 1..Len(entries) : \E a \in as : entries[i].assignment_id = a.id

\* C26 (as claimed): for a student with one grade record per non-draft
\* assignment of the class, the weighted average in the student's row of
\* the class gradebook is the one the student's own view shows for the
\* class, whatever the weights of the records (a weight of 0 included).
C26_ViewsAgree ==
    last.op = "classGradebook" =>
       \A i \in 1..Len(last.rows) :
          LET sid == last.rows[i].student_id
              own == studentAverage(EntriesOf(sid, last.classId))
          IN  OneRecordPerAssignment(sid, last.classId) =>
                 /\ last.rows[i].row.shown = own.shown
                 /\ last.rows[i].row.avg = own.avg

-----------------------------------------------------------------------------
(* Claims about the letter of the class gradebook (checked under SpecRounding) *)

\* the exact weighted percentage of the entries, as a fraction
RECURSIVE ExactScore(_, _)
ExactScore(entries, i) ==
    IF i = 0 THEN [num |-> 0, den |-> 1]
    ELSE FracAdd(ExactScore(entries, i - 1),
                 Frac(entries[i].points * entries[i].weight, entries[i].max_points))

ExactPct(entries) ==
    LET sc == ExactScore(entries, Len(entries))
    IN  [num |-> 100 * sc.num, den |-> sc.den * SumWeight(entries, Len(entries))]

\* C27 (as claimed): for grades of positive total weight the letter of a
\* student's row in the class gradebook is the band of the exact weighted
\* percentage.
C27_LetterOfExactPercentage ==
    last.op = "classGradebook" =>
       \A i \in 1..Len(last.rows) :
          LET entries == EntriesOf(last.rows[i].student_id, last.classId)
          IN  SumWeight(entries, Len(entries)) > 0 =>
                 last.rows[i].row.letter = gradebook_getLetterGrade(ExactPct(entries))

-----------------------------------------------------------------------------
(* Claims about the in-memory copies of the modules (checked under Spec) *)

LoadedAssignments == loadData(localStorage, "assignments").val

\* C28 (as claimed): after a submission, a grading or the creation of an
\* assignment has completed, the arrays held by the assignments module and
\* by the gradebook module are the ones a load would return; in particular
\* the gradebook's grades hold a grade record just recorded.
C28_CopiesEqualLoads ==
    (last.op \in {"submit", "grade", "create"} /\ last.ok) =>
       /\ submissionsData = LoadedSubmissions
       /\ assignmentsData = LoadedAssignments
       /\ gradebook.gradesData = LoadedGrades
       /\ gradebook.assignmentsData = LoadedAssignments

\* C28 (amended): every module's copy of an array is what a load returns
\* right after a page load, and the assignments module keeps its
\* submissions equal to what it saves; a grade recorded through the
\* assignments module reaches the store but not the gradebook module's
\* grades, which stay as they were loaded until the next page load.
C28_CopiesRefreshedByPageLoadOnly ==
    [][/\ last'.op = "reload" =>
             /\ submissionsData' = LoadedSubmissions'
             /\ assignmentsData' = LoadedAssignments'
             /\ gradebook'.gradesData = LoadedGrades'
             /\ gradebook'.assignmentsData = LoadedAssignments'
       /\ (last'.op = "grade" /\ last'.ok) =>
             /\ submissionsData' = LoadedSubmissions'
             /\ gradebook'.gradesData = gradebook.gradesData
             /\ \E g \in Range(LoadedGrades') :
                   /\ g.id = <<"g", nextId'>>
                   /\ g \notin Range(gradebook'.gradesData)]_vars

\* C28 witness: a grade has just been recorded; the store holds its record,
\* the gradebook module's grades do not.
C28_Witness ==
    /\ last.op = "grade" /\ last.ok
    /\ submissionsData = LoadedSubmissions
    /\ \E g \in Range(LoadedGrades) :
          g.id = <<"g", nextId>> /\ g \notin Range(gradebook.gradesData)

-----------------------------------------------------------------------------
(* Claims about the files the import command accepts (checked under SpecImport) *)

\* C29 (as claimed): a run given an existing input file, be it empty, of
\* blank rows only or of a header line only, and one of the nine entity
\* names ends with exit status 0 after writing one output file that holds
\* one record per non-blank data row.
C29_EveryFileIsConverted ==
    (/\ importer.phase = "done"
     /\ Len(importer.args) >= 2
     /\ importer.exists
     /\ importer.args[2] \in DOMAIN FIELD_MAPS)
    => /\ importer.exit = 0
       /\ importer.output.written
       /\ Len(importer.output.records) =
             IF FileRows = <<>> THEN 0 ELSE Len(FileRows) - 1

====
